---- MODULE Spec2Model ----
(***************************************************************************)
(* Session store, per-worker chat handles, message handling and tool       *)
(* invocation of the university-assistant chat backend                     *)
(* (backend/modules/session_store.py, session_manager.py, chat.py,         *)
(* tooling.py, utils.py).                                                  *)
(*                                                                         *)
(* Modelling conventions                                                   *)
(*  - A Python dict is a function whose DOMAIN is the set of keys present. *)
(*  - An Optional value is a sequence of length at most one: <<>> is None  *)
(*    and <<v>> is the value v.                                            *)
(*  - Python strings are TLA+ strings; the string functions of the code    *)
(*    are computed character by character.                                 *)
(*  - The value stored under a Redis key is the JSON text of a list of     *)
(*    {role, content} records (or of a state dict); it is represented by   *)
(*    the list (dict) it decodes to.  Operations on an established Redis   *)
(*    connection are taken to succeed.                                     *)
(*  - A request handler is one atomic action.  The order of the calls it   *)
(*    makes to the store and to the engine is kept in last.ops.            *)
(*  - A local variable of the code is bound with With(value, LAMBDA x :    *)
(*    ...), so that the value is written, and evaluated, once.             *)
(***************************************************************************)
EXTENDS Integers, Sequences, FiniteSets, TLC

VARIABLES
    redisUrl,     \* session_store.REDIS_URL is set (deployment configuration)
    my_tools,     \* the tool list the routes pass to the handlers (deployment)
    reachable,    \* environment: redis.from_url would succeed right now
    connected,    \* per worker: session_store._redis is not None
    memHist,      \* per worker: session_store._in_memory_history
    memState,     \* per worker: session_store._in_memory_state
    redisHist,    \* shared Redis keys chat:history:<session_id>
    redisState,   \* shared Redis keys chat:state:<session_id>
    sessState,    \* per worker: main.SESSION_STATE
    chats,        \* per worker: session_manager.chat_sessions (ids with a handle)
    sent,         \* engine side: what each worker's handle of a session was sent
    last,         \* record of the most recent call and of what it did, in order
    appending,    \* per worker: the list an append_message in progress has read and extended
    now,          \* datetime.datetime.now(), in minutes
    ALOCACAO_CACHE,            \* alocacoes.ALOCACAO_CACHE
    DOCENTES_INDEX_CACHE,      \* docentes.DOCENTES_INDEX_CACHE
    DOCENTES_INDEX_TIMESTAMP,  \* docentes.DOCENTES_INDEX_TIMESTAMP
    threads,      \* per thread: where it is in a cache function, and its locals
    origin,       \* the refresh each cached value was built by (refreshes are numbered)
    lastLoad,     \* record of the most recent carregar_alocacoes call
    input,        \* the arguments of the function being applied
    output        \* what it returned (None before it is applied)

\* the state of the chat backend, of the two caches, of a function application
chatVars == <<redisUrl, my_tools, reachable, connected, memHist, memState, redisHist,
              redisState, sessState, chats, sent, last, appending>>
cacheVars == <<now, ALOCACAO_CACHE, DOCENTES_INDEX_CACHE, DOCENTES_INDEX_TIMESTAMP,
               threads, origin, lastLoad>>
fnVars == <<input, output>>

vars == <<chatVars, cacheVars, fnVars>>

---------------------------------------------------------------------------
(* Bounds *)

MaxLog == 4          \* a message is only handled while the log is shorter
MaxStoreLog == 1     \* a direct append_message is only made on a shorter log
MaxReplayLog == 4    \* the longest log a handle is rebuilt from
MaxAppendLog == 2    \* an interleaved append_message is only started on a shorter log

Workers  == {"w1", "w2"}
Sessions == {"s1", "s2"}
\* the ids POST /start-chat issues; the other ids are only ever asked about
IssuedIds == {"s1"}

---------------------------------------------------------------------------
(* Optional values and dicts *)

NoneV == <<>>
Some(v) == <<v>>
IsNone(o) == Len(o) = 0
Val(o) == o[1]

EmptyDict == [k \in {} |-> 0]
DictGet(d, k) == IF k \in DOMAIN d THEN Some(d[k]) ELSE NoneV
DictSet(d, k, v) == [x \in (DOMAIN d) \cup {k} |-> IF x = k THEN v ELSE d[x]]
DictPop(d, k) == [x \in (DOMAIN d) \ {k} |-> d[x]]

\* F(v) with v evaluated once: v is what a local variable of the code holds
With(v, F(_)) == F(v)

\* min(S) of a non-empty set of integers
MinOf(S) == CHOOSE i \in S : \A j \in S : i <= j

---------------------------------------------------------------------------
(* Strings *)

UpperLetters == "ABCDEFGHIJKLMNOPQRSTUVWXYZ"
LowerLetters == "abcdefghijklmnopqrstuvwxyz"
Digits == "0123456789"

CharAt(s, i) == SubSeq(s, i, i)
CharIn(c, s) == \E i \in 1..Len(s) : CharAt(s, i) = c

\* str.casefold() on the characters used here
CasefoldChar(c) ==
    IF \E i \in 1..26 : CharAt(UpperLetters, i) = c
    THEN CharAt(LowerLetters, CHOOSE i \in 1..26 : CharAt(UpperLetters, i) = c)
    ELSE c

RECURSIVE Casefold(_)
Casefold(s) ==
    IF Len(s) = 0 THEN ""
    ELSE CasefoldChar(CharAt(s, 1)) \o Casefold(SubSeq(s, 2, Len(s)))

\* the Python expression  a in b
IsSubstr(a, b) ==
    \E i \in 1..(Len(b) - Len(a) + 1) : SubSeq(b, i, i + Len(a) - 1) = a

IsSpace(c) == c = " " \/ c = "\n" \/ c = "\t"
IsWordChar(c) == CharIn(c, UpperLetters) \/ CharIn(c, LowerLetters) \/ CharIn(c, Digits) \/ c = "_"

\* str.strip()
Strip(s) ==
    LET idx == {i \in 1..Len(s) : ~IsSpace(CharAt(s, i))}
    IN  IF idx = {} THEN ""
        ELSE SubSeq(s, CHOOSE i \in idx : \A j \in idx : i <= j,
                       CHOOSE i \in idx : \A j \in idx : i >= j)

\* s.split(".")[-1]
LastDotted(s) ==
    LET dots == {i \in 1..Len(s) : CharAt(s, i) = "."}
    IN  IF dots = {} THEN s
        ELSE SubSeq(s, (CHOOSE i \in dots : \A j \in dots : i >= j) + 1, Len(s))

\* re.search(r"\bword\b", text): word occurs with no word character around it
HasWord(word, text) ==
    \E i \in 1..(Len(text) - Len(word) + 1) :
        /\ SubSeq(text, i, i + Len(word) - 1) = word
        /\ (i = 1 \/ ~IsWordChar(CharAt(text, i - 1)))
        /\ (i + Len(word) > Len(text) \/ ~IsWordChar(CharAt(text, i + Len(word))))

---------------------------------------------------------------------------
(* Session store: session_store.py *)

Msg(role, content) == [role |-> role, content |-> content]

\* the module-level state of session_store in every worker, plus Redis
Store == [conn |-> connected, mh |-> memHist, ms |-> memState,
          rh |-> redisHist, rs |-> redisState]

MigrationOverwrite(remote, mem) ==
    [k \in DOMAIN remote \cup DOMAIN mem |-> IF k \in DOMAIN mem THEN mem[k] ELSE remote[k]]

RECURSIVE MigrateKeys(_, _, _)
\* one loop of _migrate_in_memory_to_redis over the keys ks of the dict mem:
\* a key is written only when it does not exist remotely, then popped locally
MigrateKeys(mem, remote, ks) ==
    IF ks = {} THEN [mem |-> mem, remote |-> remote]
    ELSE LET k == CHOOSE x \in ks : TRUE
             r == IF k \in DOMAIN remote THEN remote ELSE DictSet(remote, k, mem[k])
         IN  MigrateKeys(DictPop(mem, k), r, ks \ {k})

\* a migration that writes every in-memory key, existing remotely or not
_migrate_in_memory_to_redis_overwrites(st, w) ==
    IF ~st.conn[w] THEN st
    ELSE [st EXCEPT !.mh[w] = EmptyDict, !.rh = MigrationOverwrite(@, st.mh[w]),
                    !.ms[w] = EmptyDict, !.rs = MigrationOverwrite(@, st.ms[w])]

_migrate_in_memory_to_redis(st, w) ==
    IF ~st.conn[w] THEN st
    ELSE With(MigrateKeys(st.mh[w], st.rh, DOMAIN st.mh[w]), LAMBDA h :
         With(MigrateKeys(st.ms[w], st.rs, DOMAIN st.ms[w]), LAMBDA s :
             [st EXCEPT !.mh[w] = h.mem, !.rh = h.remote,
                        !.ms[w] = s.mem, !.rs = s.remote]))

\* up: the connection attempts succeed
_ensure_redis_initialized(st, w, up) ==
    IF ~redisUrl THEN st
    ELSE IF st.conn[w] THEN st
    ELSE IF up THEN _migrate_in_memory_to_redis([st EXCEPT !.conn[w] = TRUE], w)
    ELSE st

\* the store after the reconnection attempt every store function starts with
Ensured(st, w) == _ensure_redis_initialized(st, w, reachable)

\* the value get_messages returns once the store is Ensured
get_messages(st, w, s) ==
    IF st.conn[w] THEN DictGet(st.rh, s) ELSE DictGet(st.mh[w], s)

set_messages(st0, w, s, messages) ==
    With(Ensured(st0, w), LAMBDA st :
        IF st.conn[w] THEN [st EXCEPT !.rh = DictSet(@, s, messages)]
        ELSE [st EXCEPT !.mh[w] = DictSet(@, s, messages)])

create_session(st0, w, s, initial_messages) ==
    set_messages(st0, w, s, initial_messages)

append_message(st0, w, s, role, text) ==
    With(Ensured(st0, w), LAMBDA st :
    With(get_messages(st, w, s), LAMBDA got :
        set_messages(st, w, s, Append(IF IsNone(got) THEN <<>> ELSE Val(got),
                                      Msg(role, text)))))

delete_session(st0, w, s) ==
    With(Ensured(st0, w), LAMBDA st :
        IF st.conn[w] THEN [st EXCEPT !.rh = DictPop(@, s)]
        ELSE [st EXCEPT !.mh[w] = DictPop(@, s)])

get_state(st, w, s) ==
    IF st.conn[w] THEN DictGet(st.rs, s) ELSE DictGet(st.ms[w], s)

set_state(st0, w, s, state) ==
    With(Ensured(st0, w), LAMBDA st :
        IF st.conn[w] THEN [st EXCEPT !.rs = DictSet(@, s, state)]
        ELSE [st EXCEPT !.ms[w] = DictSet(@, s, state)])

---------------------------------------------------------------------------
(* Conversational engine (external): what a call to it can produce *)

\* the user messages of the model
Messages == {"oi", "O Sigaa caiu?"}
\* the messages sent while a selection is pending
SelectionMessages == {"1", " 2 ", "3"}

SystemInstr == "Voce e um assistente virtual da UFC Campus Quixada."
WelcomeMsg  == "Ola! Sou o assistente virtual da UFC Quixada."

\* messages of the exceptions the SDK raises
EngineErrors == {"429 RESOURCE_EXHAUSTED", "Quota exceeded for model", "connection reset"}
SendErrors   == {"429 RESOURCE_EXHAUSTED", "connection reset"}

\* a response object: its text and the name of its structured function call
Responses ==
    { [text |-> "Claro!", fc |-> ""],
      [text |-> "  ", fc |-> ""],
      [text |-> "", fc |-> "default_api.verifica_status_sites_para_os_estudantes"],
      [text |-> "", fc |-> "pesquisar_web"],
      [text |-> "default_api.buscar_feriados(ano=2025)", fc |-> ""] }

FollowupResponses == { [text |-> "Sim, esta online.", fc |-> ""], [text |-> " ", fc |-> ""] }

NoResponse == [text |-> "", fc |-> ""]
Returned(r) == [ok |-> TRUE, resp |-> r, err |-> ""]
Raised(e)   == [ok |-> FALSE, resp |-> NoResponse, err |-> e]

\* outcomes of chat_obj.send_message / client.chats.create
SendOutcomes     == {Returned(r) : r \in Responses} \cup {Raised(e) : e \in SendErrors}
RetryOutcomes    == {Returned(r) : r \in FollowupResponses} \cup {Raised("429 RESOURCE_EXHAUSTED")}
FollowupOutcomes == {Returned(r) : r \in FollowupResponses} \cup {Raised("connection reset")}
CreateOutcomes   == {Returned(NoResponse)} \cup {Raised(e) : e \in EngineErrors}

\* Strip over the texts a response of the model can carry, computed once
Texts == {r.text : r \in Responses \cup FollowupResponses \cup {NoResponse}}
StrippedText == [t \in Texts |-> Strip(t)]

\* utils._render_response_text on a response that carries only .text
_render_response_text(response) == StrippedText[response.text]

---------------------------------------------------------------------------
(* Registered tools: main.my_tools *)

Tool(name, module) ==
    [__name__ |-> name, __qualname__ |-> name, __module__ |-> module, wrapped |-> NoneV]

StatusToolName == "verifica_status_sites_para_os_estudantes"

my_tools_registered ==
    << Tool("buscar_cardapio_ru_resolver", "modules.cardapio"),
       Tool("buscar_feriados", "modules.feriados"),
       Tool(StatusToolName, "modules.feriados"),
       Tool("buscar_dados_professores", "modules.docentes") >>

\* the my_tools argument: the registered list, or the default None
ToolLists == {my_tools_registered, <<>>}

\* what running a tool produces: its text, or an exception
ToolOutcomes ==
    { [ok |-> TRUE, out |-> "Sigaa: ONLINE"], [ok |-> FALSE, out |-> "timeout"] }

\* an insertion-ordered dict as a sequence of <<key, value>> pairs
ODictKeys(d) == {d[i][1] : i \in 1..Len(d)}
ODictGet(d, k) ==
    IF k \in ODictKeys(d) THEN Some((d[CHOOSE i \in 1..Len(d) : d[i][1] = k])[2]) ELSE NoneV
ODictSet(d, k, v) ==
    IF k \in ODictKeys(d) THEN [i \in 1..Len(d) |-> IF d[i][1] = k THEN <<k, v>> ELSE d[i]]
    ELSE Append(d, <<k, v>>)

RECURSIVE ODictSetAll(_, _, _)
ODictSetAll(d, ks, v) ==
    IF Len(ks) = 0 THEN d ELSE ODictSetAll(ODictSet(d, ks[1], v), Tail(ks), v)

\* the names find_tool_by_name gathers for one tool, in the order it adds them
NameCandidates(t) ==
    LET c1 == IF t.__name__ # "" THEN <<t.__name__>> ELSE <<>>
        c2 == IF t.__qualname__ # "" /\ t.__qualname__ # t.__name__
              THEN Append(c1, t.__qualname__) ELSE c1
        wn == IF IsNone(t.wrapped) THEN "" ELSE Val(t.wrapped).__name__
        wq == IF IsNone(t.wrapped) THEN "" ELSE Val(t.wrapped).__qualname__
        c3 == IF wn # "" /\ ~(\E i \in 1..Len(c2) : c2[i] = wn) THEN Append(c2, wn) ELSE c2
        c4 == IF wq # "" /\ ~(\E i \in 1..Len(c3) : c3[i] = wq) THEN Append(c3, wq) ELSE c3
    IN  c4

RECURSIVE KeysOfCandidates(_, _)
KeysOfCandidates(t, cands) ==
    IF Len(cands) = 0 THEN <<>>
    ELSE <<Casefold(cands[1]), Casefold(t.__module__ \o "." \o cands[1])>>
         \o KeysOfCandidates(t, Tail(cands))

RECURSIVE FindToolsMap(_, _, _)
\* tools_map of find_tool_by_name after the tools i..Len(tools); values are indices
FindToolsMap(tools, i, d) ==
    IF i > Len(tools) THEN d
    ELSE LET t == tools[i]
             ks == Append(KeysOfCandidates(t, NameCandidates(t)),
                          Casefold(t.__module__ \o "." \o t.__name__))
         IN  FindToolsMap(tools, i + 1, ODictSetAll(d, ks, i))

\* find_tool_by_name without its last pass over the keys that contain the name
find_tool_by_name_noFragment(tools, func_name) ==
    IF Len(tools) = 0 \/ func_name = "" THEN NoneV
    ELSE LET tools_map == FindToolsMap(tools, 1, <<>>)
             direct == ODictGet(tools_map, Casefold(func_name))
         IN  IF ~IsNone(direct) THEN direct
             ELSE ODictGet(tools_map, Casefold(LastDotted(func_name)))

\* tooling.find_tool_by_name: the index of the tool found, or None
find_tool_by_name(tools, func_name) ==
    IF Len(tools) = 0 \/ func_name = "" THEN NoneV
    ELSE LET key == Casefold(func_name)
             tools_map == FindToolsMap(tools, 1, <<>>)
             direct == ODictGet(tools_map, key)
             short == ODictGet(tools_map, Casefold(LastDotted(func_name)))
             frag == {i \in 1..Len(tools_map) : IsSubstr(key, tools_map[i][1])}
         IN  IF ~IsNone(direct) THEN direct
             ELSE IF ~IsNone(short) THEN short
             ELSE IF frag # {} THEN Some(tools_map[CHOOSE i \in frag : \A j \in frag : i <= j][2])
             ELSE NoneV

\* the function names the engine of the model can ask for
FuncNames ==
    {r.fc : r \in Responses} \cup {"buscar_feriados", StatusToolName}

\* find_tool_by_name over the names and tool lists of the model, computed once
FoundTool == [tools \in ToolLists |-> [n \in FuncNames |-> find_tool_by_name(tools, n)]]

\* tooling.safe_call_tool: (ok, text)
safe_call_tool(outcome) ==
    IF outcome.ok THEN [ok |-> TRUE, text |-> outcome.out]
    ELSE [ok |-> FALSE, text |-> "Erro ao executar ferramenta: " \o outcome.out]

FormatPrompt == "Use os dados gerados pela ferramenta acima e responda de forma curta e amigavel ao usuario. Apenas retorne a resposta final em Portugues."
ToolMessage(target_name, result_text) == target_name \o " output:\n" \o result_text
CombinedPrompt(target_name, result_text) ==
    ToolMessage(target_name, result_text) \o "\n\n" \o FormatPrompt

---------------------------------------------------------------------------
(* What a call did, and what it answered *)

Op(op, role, text, ok) == [op |-> op, role |-> role, text |-> text, ok |-> ok]

\* the reply of a route: status 200 with the message, or an HTTPException
Reply(status, text, selected) == [status |-> status, text |-> text, selected |-> selected]
HTTPException(status, detail) == Reply(status, detail, "")

DigitChar(n) == CharAt(Digits, n + 1)
\* str(HTTPException) for the status codes raised here
StrOfHTTPException(e) ==
    DigitChar(e.status \div 100) \o DigitChar((e.status \div 10) % 10)
        \o DigitChar(e.status % 10) \o ": " \o e.text

\* the state every handler works on: the stores, the local dicts, the engine
World == [st |-> Store, ss |-> sessState, chats |-> chats, sent |-> sent, ops |-> <<>>]

WithOp(wd, o) == [wd EXCEPT !.ops = Append(@, o)]

\* chat_obj.send_message(prompt) on the handle worker w holds for session s
SendMessage(wd, w, s, prompt, outcome) ==
    [WithOp(wd, Op("send", "", prompt, outcome.ok)) EXCEPT !.sent[w][s] = Append(@, prompt)]

\* append_message as the handlers call it
AppendToLog(wd, w, s, role, text) ==
    [WithOp(wd, Op("append", role, text, TRUE)) EXCEPT
        !.st = append_message(wd.st, w, s, role, text)]

---------------------------------------------------------------------------
(* session_manager.ensure_chat_obj *)

RECURSIVE Replay(_, _, _, _, _, _)
\* the loop over the stored messages: user messages are sent, failures ignored
Replay(wd, w, s, messages, i, fails) ==
    IF i > Len(messages) THEN wd
    ELSE IF messages[i].role = "user"
    THEN Replay(SendMessage(wd, w, s, messages[i].content,
                            [ok |-> i \notin fails]), w, s, messages, i + 1, fails)
    ELSE Replay(wd, w, s, messages, i + 1, fails)

\* ensure_chat_obj giving up the replay at the first send that raises
ensure_chat_obj_stopsAtFailure(wd, w, s, system_instr, createOut, fails) ==
    IF s \in wd.chats[w] THEN [wd |-> wd, raised |-> FALSE, err |-> ""]
    ELSE IF ~createOut.ok
    THEN [wd |-> WithOp(wd, Op("create", "", system_instr, FALSE)),
          raised |-> TRUE, err |-> createOut.err]
    ELSE With(WithOp(wd, Op("create", "", system_instr, TRUE)), LAMBDA wd1 :
         With(Ensured(wd1.st, w), LAMBDA st1 :
         With(get_messages(st1, w, s), LAMBDA got :
         With(IF IsNone(got) THEN <<>> ELSE Val(got), LAMBDA messages :
         With(fails \cap 1..Len(messages), LAMBDA raising :
             [wd |-> [Replay([wd1 EXCEPT !.st = st1, !.sent[w][s] = <<>>], w, s,
                             IF raising = {} THEN messages
                             ELSE SubSeq(messages, 1, MinOf(raising)), 1, fails)
                        EXCEPT !.chats[w] = @ \cup {s}],
              raised |-> FALSE, err |-> ""])))))

\* createOut: outcome of client.chats.create; fails: log positions whose replay raises
ensure_chat_obj(wd, w, s, system_instr, createOut, fails) ==
    IF s \in wd.chats[w] THEN [wd |-> wd, raised |-> FALSE, err |-> ""]
    ELSE IF ~createOut.ok
    THEN [wd |-> WithOp(wd, Op("create", "", system_instr, FALSE)),
          raised |-> TRUE, err |-> createOut.err]
    ELSE With(WithOp(wd, Op("create", "", system_instr, TRUE)), LAMBDA wd1 :
         With(Ensured(wd1.st, w), LAMBDA st1 :
         With(get_messages(st1, w, s), LAMBDA got :
             [wd |-> [Replay([wd1 EXCEPT !.st = st1, !.sent[w][s] = <<>>], w, s,
                             IF IsNone(got) THEN <<>> ELSE Val(got), 1, fails)
                        EXCEPT !.chats[w] = @ \cup {s}],
              raised |-> FALSE, err |-> ""])))

---------------------------------------------------------------------------
(* tooling.append_tool_and_ask_model and tooling.handle_tool_invocation *)

\* append_tool_and_ask_model asking the engine before it stores the tool output
append_tool_and_ask_model_sendFirst(wd, w, s, target_name, result_text, followOut) ==
    [wd |-> AppendToLog(SendMessage(wd, w, s, CombinedPrompt(target_name, result_text),
                                    followOut),
                        w, s, "tool", ToolMessage(target_name, result_text)),
     formatted |-> followOut.ok]

\* returns the world and whether the follow-up was obtained ("formatted")
append_tool_and_ask_model(wd, w, s, target_name, result_text, followOut) ==
    [wd |-> SendMessage(AppendToLog(wd, w, s, "tool", ToolMessage(target_name, result_text)),
                        w, s, CombinedPrompt(target_name, result_text), followOut),
     formatted |-> followOut.ok]

\* handle_tool_invocation without the fallback of lines 190-195
handle_tool_invocation_noFallback(wd, w, s, tools, func_name, toolOut, followOut, renderRaises) ==
    With(FoundTool[tools][func_name], LAMBDA target :
    IF IsNone(target) THEN [wd |-> wd, ret |-> NoneV]
    ELSE
    With(tools[Val(target)].__name__, LAMBDA name :
    With(safe_call_tool(toolOut), LAMBDA call :
    With(WithOp(wd, Op("tool", "", name, call.ok)), LAMBDA wd1 :
    IF ~call.ok THEN [wd |-> wd1, ret |-> Some(call.text)]
    ELSE
    With(append_tool_and_ask_model(wd1, w, s, name, call.text, followOut), LAMBDA asked :
    With(IF asked.formatted /\ ~renderRaises
         THEN _render_response_text(followOut.resp) ELSE "", LAMBDA msg :
    IF msg # ""
    THEN [wd |-> AppendToLog(asked.wd, w, s, "assistant", msg), ret |-> Some(msg)]
    ELSE [wd |-> asked.wd, ret |-> Some(msg)]))))))

\* handle_tool_invocation without the test of lines 166-168
handle_tool_invocation_ignoresFailure(wd, w, s, tools, func_name, toolOut, followOut, renderRaises) ==
    With(FoundTool[tools][func_name], LAMBDA target :
    IF IsNone(target) THEN [wd |-> wd, ret |-> NoneV]
    ELSE
    With(tools[Val(target)].__name__, LAMBDA name :
    With(safe_call_tool(toolOut), LAMBDA call :
    With(WithOp(wd, Op("tool", "", name, call.ok)), LAMBDA wd1 :
    With(append_tool_and_ask_model(wd1, w, s, name, call.text, followOut), LAMBDA asked :
    With(IF asked.formatted /\ ~renderRaises
         THEN _render_response_text(followOut.resp) ELSE "", LAMBDA msg :
    IF msg # ""
    THEN [wd |-> AppendToLog(asked.wd, w, s, "assistant", msg), ret |-> Some(msg)]
    ELSE [wd |-> AppendToLog(asked.wd, w, s, "assistant", call.text),
          ret |-> Some(call.text)]))))))

\* ret is None when no tool matches, else the text of the returned message
handle_tool_invocation(wd, w, s, tools, func_name, toolOut, followOut, renderRaises) ==
    With(FoundTool[tools][func_name], LAMBDA target :
    IF IsNone(target) THEN [wd |-> wd, ret |-> NoneV]
    ELSE
    With(tools[Val(target)].__name__, LAMBDA name :
    With(safe_call_tool(toolOut), LAMBDA call :
    With(WithOp(wd, Op("tool", "", name, call.ok)), LAMBDA wd1 :
    IF ~call.ok THEN [wd |-> wd1, ret |-> Some(call.text)]
    ELSE
    With(append_tool_and_ask_model(wd1, w, s, name, call.text, followOut), LAMBDA asked :
    With(IF asked.formatted /\ ~renderRaises
         THEN _render_response_text(followOut.resp) ELSE "", LAMBDA msg :
    IF msg # ""
    THEN [wd |-> AppendToLog(asked.wd, w, s, "assistant", msg), ret |-> Some(msg)]
    ELSE [wd |-> AppendToLog(asked.wd, w, s, "assistant", call.text),
          ret |-> Some(call.text)]))))))

---------------------------------------------------------------------------
(* chat.py: helpers of start_chat and handle_chat_message *)

EndsWith(s, suffix) ==
    Len(s) >= Len(suffix) /\ SubSeq(s, Len(s) - Len(suffix) + 1, Len(s)) = suffix

\* the test of the except branches: is the failure a quota / rate limit one
IsQuotaLike(msg) ==
    \/ IsSubstr("RESOURCE_EXHAUSTED", msg)
    \/ IsSubstr("quota", Casefold(msg))
    \/ IsSubstr("rate-limits", Casefold(msg))

QuotaDetail   == "Erro interno temporario: limite de requisicoes atingido. Tente novamente em alguns instantes."
StartDetail   == "Erro interno no servidor ao iniciar o chat. Por favor, tente novamente mais tarde."
ProcessDetail == "Erro interno no servidor ao processar sua mensagem. Por favor, tente novamente mais tarde."
EmptyDetail   == "Erro interno no servidor: resposta vazia do modelo. Tente novamente mais tarde."
RehydrateDetail == "Erro ao reidratar sessao do chat"
InvalidDetail == "Sessao invalida"

\* the messages str(e) can be in those branches; IsQuotaLike of each, computed once
FailureMessages ==
    EngineErrors \cup {StrOfHTTPException(HTTPException(500, EmptyDetail))}
QuotaLike == [msg \in FailureMessages |-> IsQuotaLike(msg)]

\* the except Exception branch that ends start_chat and handle_chat_message
ClassifyFailure(msg, generic_detail) ==
    IF QuotaLike[msg] THEN HTTPException(503, QuotaDetail)
    ELSE HTTPException(500, generic_detail)

\* the quick heuristic on the user message (re.search ... re.IGNORECASE)
StatusHeuristic(message) ==
    LET m == Casefold(message)
    IN  \/ HasWord("sigaa", m)
        \/ HasWord("moodle", m)
        \/ IsSubstr("status do sigaa", m)
        \/ IsSubstr("status do moodle", m)
        \/ IsSubstr("esta online", m)

\* the first tool whose name ends with the status tool's name: its index or None
StatusTarget(tools) ==
    LET c == {i \in 1..Len(tools) : EndsWith(Casefold(tools[i].__name__), StatusToolName)}
    IN  IF c = {} THEN NoneV ELSE Some(MinOf(c))

RECURSIVE ChatToolsMap(_, _, _)
\* the tools_map handle_chat_message builds before it calls a detected tool
ChatToolsMap(tools, i, d) ==
    IF i > Len(tools) THEN d
    ELSE LET t == tools[i]
             d1 == ODictSet(d, Casefold(t.__name__), i)
             d2 == ODictSet(d1, Casefold(t.__module__ \o "." \o t.__name__), i)
         IN  ChatToolsMap(tools, i + 1, d2)

\* target of the structured and of the textual detection: a tool index or None
DetectedTarget(tools, func_name) ==
    IF func_name = "" \/ Len(tools) = 0 THEN NoneV
    ELSE LET tools_map == ChatToolsMap(tools, 1, <<>>)
             direct == ODictGet(tools_map, Casefold(func_name))
         IN  IF ~IsNone(direct) THEN direct
             ELSE ODictGet(tools_map, Casefold(LastDotted(func_name)))

\* extract_function_call_from_response on a response with a direct field
extract_function_call_from_response(response) == response.fc

\* the Markdown code fence (three backquotes), written ~~~ in the texts used here
CodeFence == "~~~"

IsNameChar(c) == IsWordChar(c) \/ c = "."

NextNonSpace(text, i) ==
    LET c == {j \in i..Len(text) : ~IsSpace(CharAt(text, j))}
    IN  IF c = {} THEN Len(text) + 1 ELSE MinOf(c)

NameEnd(text, a) ==
    LET c == {j \in a..Len(text) : ~IsNameChar(CharAt(text, j))}
    IN  (IF c = {} THEN Len(text) + 1 ELSE MinOf(c)) - 1

\* the match of  ^\s*([\w\.]+)\s*\((.*)\)  (re.M) that starts at line start p
CallMatchAt(text, p) ==
    LET a == NextNonSpace(text, p)
        b == NameEnd(text, a)
        c == NextNonSpace(text, b + 1)
    IN  /\ (p = 1 \/ CharAt(text, p - 1) = "\n")
        /\ b >= a
        /\ c <= Len(text) /\ CharAt(text, c) = "("
        /\ \E e \in (c + 1)..Len(text) :
              /\ CharAt(text, e) = ")"
              /\ \A j \in (c + 1)..e : CharAt(text, j) # "\n"

\* the function name of parse_tool_call_from_text, "" when it returns (None, None)
parse_tool_call_from_text(text) ==
    LET lowered == Casefold(text)
        starts == {p \in 1..Len(text) : CallMatchAt(text, p)}
    IN  IF text = "" THEN ""
        ELSE IF IsSubstr("exemplo", lowered) \/ IsSubstr("ex:", lowered)
                \/ IsSubstr(CodeFence, text) THEN ""
        ELSE IF starts = {} THEN ""
        ELSE LET a == NextNonSpace(text, MinOf(starts))
             IN  LastDotted(SubSeq(text, a, NameEnd(text, a)))

\* the string functions above over the texts of the model, computed once
StatusQuery == [m \in Messages \cup SelectionMessages |-> StatusHeuristic(m)]
StatusTargetOf == [tools \in ToolLists |-> StatusTarget(tools)]
ParsedName == [t \in {StrippedText[x] : x \in Texts} |-> parse_tool_call_from_text(t)]
Detected == [tools \in ToolLists |-> [n \in FuncNames |-> DetectedTarget(tools, n)]]

---------------------------------------------------------------------------
(* Pending selection: utils._match_option_by_user_input and its use *)

IsDigitStr(s) == Len(s) > 0 /\ \A i \in 1..Len(s) : CharIn(CharAt(s, i), Digits)

RECURSIVE ToInt(_)
ToInt(s) ==
    IF Len(s) = 0 THEN 0
    ELSE 10 * ToInt(SubSeq(s, 1, Len(s) - 1))
         + ((CHOOSE i \in 1..10 : CharAt(Digits, i) = CharAt(s, Len(s))) - 1)

RECURSIVE CleanCollapse(_, _)
\* non-word characters become spaces and every run of whitespace one space
CleanCollapse(s, prevSpace) ==
    IF Len(s) = 0 THEN ""
    ELSE LET c == CharAt(s, 1)
             sp == ~IsWordChar(c)
         IN  IF sp THEN (IF prevSpace THEN "" ELSE " ") \o CleanCollapse(SubSeq(s, 2, Len(s)), TRUE)
             ELSE c \o CleanCollapse(SubSeq(s, 2, Len(s)), FALSE)

\* utils._normalize_token on unaccented text
_normalize_token(value) == Strip(Casefold(CleanCollapse(value, FALSE)))

\* the first three passes of _match_option_by_user_input (the texts used here
\* have no close match that is not also one of these): an option or None
_match_option_by_user_input(user_input, options) ==
    LET n == Len(options)
        norm_msg == _normalize_token(user_input)
        p1 == {i \in 1..n : Casefold(options[i]) = Casefold(user_input)}
        p2 == {i \in 1..n : norm_msg = _normalize_token(options[i])}
        p3 == {i \in 1..n : \/ IsSubstr(norm_msg, _normalize_token(options[i]))
                            \/ IsSubstr(_normalize_token(options[i]), norm_msg)}
    IN  IF user_input = "" \/ n = 0 THEN NoneV
        ELSE IF p1 # {} THEN Some(options[MinOf(p1)])
        ELSE IF p2 # {} THEN Some(options[MinOf(p2)])
        ELSE IF p3 # {} THEN Some(options[MinOf(p3)])
        ELSE NoneV

\* ChosenQuery answering with the option shown instead of its query
ChosenQuery_displayed(message, pending) ==
    LET options == pending.options
        msg == Strip(message)
        idx == ToInt(msg) - 1
        matched == _match_option_by_user_input(msg, options)
    IN  IF IsDigitStr(msg) /\ 0 <= idx /\ idx < Len(options) THEN options[idx + 1]
        ELSE IF IsNone(matched) THEN "" ELSE Val(matched)

\* the value chosen for a message while a selection is pending, "" when none
ChosenQuery(message, pending) ==
    LET options == pending.options
        queries == pending.queries
        msg == Strip(message)
        idx == ToInt(msg) - 1
        byNumber == IF IsDigitStr(msg) /\ 0 <= idx /\ idx < Len(options)
                    THEN (IF idx < Len(queries) THEN queries[idx + 1] ELSE options[idx + 1])
                    ELSE ""
        matched == _match_option_by_user_input(msg, options)
        pos == MinOf({i \in 1..Len(options) : options[i] = Val(matched)})
    IN  IF byNumber # "" THEN byNumber
        ELSE IF IsNone(matched) THEN ""
        ELSE IF pos <= Len(queries) THEN queries[pos] ELSE Val(matched)

NoPending == [pending_selection |-> NoneV]

\* states in which a selection is pending
SomePending ==
    [pending_selection |-> Some([options |-> <<"Ana Lima", "Ana Souza">>,
                                 queries |-> <<"ana lima", "ana souza">>])]

ThreePending ==
    [pending_selection |-> Some([options |-> <<"Ana Lima", "Ana Souza", "Rui Lima">>,
                                 queries |-> <<"ana lima", "ana souza", "rui lima">>])]

\* ChosenQuery over the messages and the selections used, computed once
Chosen ==
    [message \in Messages \cup SelectionMessages |->
        [pending \in {Val(SomePending.pending_selection), Val(ThreePending.pending_selection)}
            |-> ChosenQuery(message, pending)]]

\* persisted_state.get("pending_selection") or the local one of the local session_state
PendingOf(wd, w, s) ==
    LET persisted == get_state(wd.st, w, s)
        p1 == IF IsNone(persisted) THEN NoneV ELSE Val(persisted).pending_selection
        loc == DictGet(wd.ss[w], s)
    IN  IF ~IsNone(p1) THEN p1
        ELSE IF IsNone(loc) THEN NoneV ELSE Val(loc).pending_selection

---------------------------------------------------------------------------
(* chat.start_chat and chat.handle_chat_message *)

\* the outcomes of the environment a call consumes
DefaultIn ==
    [createOut |-> Returned(NoResponse), fails |-> {}, o1 |-> Returned(NoResponse),
     o2 |-> Returned(NoResponse), toolOut |-> [ok |-> TRUE, out |-> ""],
     followOut |-> Returned(NoResponse), renderRaises |-> FALSE]

\* what a handler returns: the world it leaves, its reply, the branch it ended
\* in and the environment outcomes it consumed
Ret(wd, result, path, used) == [wd |-> wd, result |-> result, path |-> path, used |-> used]

start_chat(wd, w, s, system_instr, in) ==
    With(ensure_chat_obj(wd, w, s, system_instr, in.createOut, in.fails), LAMBDA e :
    IF e.raised
    THEN Ret(e.wd, ClassifyFailure(e.err, StartDetail), "create_failed", {"create"})
    ELSE
    With(create_session(e.wd.st, w, s,
             <<Msg("system", system_instr), Msg("assistant", WelcomeMsg)>>), LAMBDA st1 :
    With(set_state(st1, w, s, NoPending), LAMBDA st2 :
        Ret([e.wd EXCEPT !.ss[w] = DictSet(@, s, NoPending), !.st = st2,
                         !.ops = @ \o <<Op("create_session", "", s, TRUE),
                                         Op("set_state", "", s, TRUE)>>],
            Reply(200, WelcomeMsg, ""), "started", {"create", "replay"}))))

\* a detection step that runs the tool and lets the handling go on
InvokeDetected_continues(wd, w, s, tools, target, func_name, in) ==
    IF IsNone(target) THEN [wd |-> wd, ret |-> NoneV]
    ELSE [wd |-> handle_tool_invocation(wd, w, s, tools, func_name,
                                        in.toolOut, in.followOut, in.renderRaises).wd,
          ret |-> NoneV]

\* the tool call of one detection step: nothing happens when target is None
InvokeDetected(wd, w, s, tools, target, func_name, in) ==
    IF IsNone(target) THEN [wd |-> wd, ret |-> NoneV]
    ELSE handle_tool_invocation(wd, w, s, tools, func_name,
                                in.toolOut, in.followOut, in.renderRaises)

ToolUsed(in) ==
    {"tool"} \cup (IF in.toolOut.ok THEN {"follow"} ELSE {})
             \cup (IF in.toolOut.ok /\ in.followOut.ok THEN {"render"} ELSE {})

\* RetryAndReply retrying a second time when the retry is empty too
RetryAndReply_again(wd, w, s, message, text, in, used) ==
    With(text = "", LAMBDA retry :
    With(IF retry THEN SendMessage(wd, w, s, message, in.o2) ELSE wd, LAMBDA wd1 :
    With(IF retry /\ in.o2.ok THEN _render_response_text(in.o2.resp) ELSE text, LAMBDA text2 :
    With(IF text2 = "" THEN SendMessage(wd1, w, s, message, in.o2) ELSE wd1, LAMBDA wd2 :
    With(IF retry THEN used \cup {"o2"} ELSE used, LAMBDA used2 :
    IF text2 = ""
    THEN Ret(wd2, ClassifyFailure(StrOfHTTPException(HTTPException(500, EmptyDetail)),
                                  ProcessDetail), "empty", used2)
    ELSE Ret(AppendToLog(wd2, w, s, "assistant", text2),
             Reply(200, text2, ""), "final", used2))))))

\* the empty-response retry and the end of the no-tool path
RetryAndReply(wd, w, s, message, text, in, used) ==
    With(text = "", LAMBDA retry :
    With(IF retry THEN SendMessage(wd, w, s, message, in.o2) ELSE wd, LAMBDA wd1 :
    With(IF retry /\ in.o2.ok THEN _render_response_text(in.o2.resp) ELSE text, LAMBDA text2 :
    With(IF retry THEN used \cup {"o2"} ELSE used, LAMBDA used2 :
    IF text2 = ""
    THEN Ret(wd1, ClassifyFailure(StrOfHTTPException(HTTPException(500, EmptyDetail)),
                                  ProcessDetail), "empty", used2)
    ELSE Ret(AppendToLog(wd1, w, s, "assistant", text2),
             Reply(200, text2, ""), "final", used2)))))

\* handle_chat_message from "otherwise, forward to SDK" on
ForwardToSDK(wd, w, s, message, tools, in, used) ==
    With(AppendToLog(wd, w, s, "user", message), LAMBDA wd1 :
    With(IF StatusQuery[message] THEN StatusTargetOf[tools] ELSE NoneV, LAMBDA heur :
    With(InvokeDetected(wd1, w, s, tools, heur,
             IF IsNone(heur) THEN "" ELSE tools[Val(heur)].__name__, in), LAMBDA inv0 :
    IF ~IsNone(inv0.ret)
    THEN Ret(inv0.wd, Reply(200, Val(inv0.ret), ""), "tool_heuristic", used \cup ToolUsed(in))
    ELSE
    With(SendMessage(inv0.wd, w, s, message, in.o1), LAMBDA wd2 :
    With(used \cup {"o1"}, LAMBDA used1 :
    IF ~in.o1.ok
    THEN Ret(wd2, ClassifyFailure(in.o1.err, ProcessDetail), "send_failed", used1)
    ELSE
    With(_render_response_text(in.o1.resp), LAMBDA text :
    With(extract_function_call_from_response(in.o1.resp), LAMBDA fn1 :
    With(InvokeDetected(wd2, w, s, tools, Detected[tools][fn1], fn1, in), LAMBDA inv1 :
    IF ~IsNone(inv1.ret)
    THEN Ret(inv1.wd, Reply(200, Val(inv1.ret), ""), "tool_structured",
             used1 \cup ToolUsed(in))
    ELSE
    With(ParsedName[text], LAMBDA fn2 :
    With(InvokeDetected(inv1.wd, w, s, tools, Detected[tools][fn2], fn2, in), LAMBDA inv2 :
    IF ~IsNone(inv2.ret)
    THEN Ret(inv2.wd, Reply(200, Val(inv2.ret), ""), "tool_textual",
             used1 \cup ToolUsed(in))
    ELSE RetryAndReply(inv2.wd, w, s, message, text, in, used1)))))))))))

\* the pending-selection step: the selected value, "" when nothing is resolved
\* a handler that writes a new state and drops the other keys of the stored one
Cleared_dropsKeys(found) == NoPending

\* {**state, "pending_selection": None}, with {} for a state that is None
Cleared(found) ==
    DictSet(IF IsNone(found) THEN EmptyDict ELSE Val(found), "pending_selection", NoneV)

ResolvePending(wd, w, s, message) ==
    LET pending == PendingOf(wd, w, s)
    IN  IF IsNone(pending) THEN "" ELSE Chosen[message][Val(pending)]

\* a handler that stores the incoming message before it rebuilds the handle
HandleValidSession_appendsFirst(wd0, w, s, messages, message, tools, in) ==
    With(IF s \in wd0.chats[w] THEN {}
         ELSE {"create"} \cup (IF in.createOut.ok THEN {"replay"} ELSE {}), LAMBDA used :
    With(ensure_chat_obj(AppendToLog(wd0, w, s, "user", message), w, s,
                         IF Len(messages) > 0 THEN messages[1].content ELSE "",
                         in.createOut, in.fails), LAMBDA e :
    IF e.raised
    THEN Ret(e.wd, HTTPException(500, RehydrateDetail), "rehydrate_failed", used)
    ELSE ForwardToSDK(e.wd, w, s, message, tools, in, used)))

\* handle_chat_message once the stored log is known to exist
HandleValidSession(wd0, w, s, messages, message, tools, in) ==
    With(IF s \in wd0.chats[w] THEN {}
         ELSE {"create"} \cup (IF in.createOut.ok THEN {"replay"} ELSE {}), LAMBDA used :
    With(ensure_chat_obj(wd0, w, s, IF Len(messages) > 0 THEN messages[1].content ELSE "",
                         in.createOut, in.fails), LAMBDA e :
    IF e.raised
    THEN Ret(e.wd, HTTPException(500, RehydrateDetail), "rehydrate_failed", used)
    ELSE
    With(ResolvePending(e.wd, w, s, message), LAMBDA chosen :
    IF chosen # ""
    THEN Ret([e.wd EXCEPT !.ss[w] = DictSet(@, s, Cleared(DictGet(@, s))),
                          !.st = set_state(@, w, s, Cleared(get_state(e.wd.st, w, s))),
                          !.ops = Append(@, Op("set_state", "", s, TRUE))],
             Reply(200, "Confirmado: " \o chosen, chosen), "resolved", used)
    ELSE ForwardToSDK(e.wd, w, s, message, tools, in, used))))

\* handle_chat_message without the test of lines 154-159
handle_chat_message_unchecked(wd00, w, s, message, tools, in) ==
    With([wd00 EXCEPT !.st = Ensured(@, w)], LAMBDA wd0 :
    With(get_messages(wd0.st, w, s), LAMBDA got :
        HandleValidSession(wd0, w, s, IF IsNone(got) THEN <<>> ELSE Val(got),
                           message, tools, in)))

handle_chat_message(wd00, w, s, message, tools, in) ==
    With([wd00 EXCEPT !.st = Ensured(@, w)], LAMBDA wd0 :
    With(get_messages(wd0.st, w, s), LAMBDA got :
        IF IsNone(got) THEN Ret(wd0, HTTPException(404, InvalidDetail), "invalid", {})
        ELSE HandleValidSession(wd0, w, s, Val(got), message, tools, in)))

---------------------------------------------------------------------------
(* Allocation cache: alocacoes.carregar_alocacoes, utils._cache_expired and *)
(* utils._resolver_link_google_docs.  Time is counted in minutes.           *)

ALOCACAO_CACHE_TTL == 30
DOCENTES_CACHE_TTL == 720

\* config.ALOCACAO_DOC_URL, with the document id shortened
ALOCACAO_DOC_URL == "https://docs.google.com/document/d/13SW-e7g/edit?tab=t.0"

\* a test that takes the cache as expired when its age is exactly ttl
_cache_expired_atTtl(timestamp, ttl, clock) ==
    IF IsNone(timestamp) THEN TRUE ELSE clock - Val(timestamp) >= ttl

\* timestamp is None or a time; clock is what datetime.datetime.now() returns
_cache_expired(timestamp, ttl, clock) ==
    IF IsNone(timestamp) THEN TRUE ELSE clock - Val(timestamp) > ttl

IsDocIdChar(c) == IsWordChar(c) \/ c = "-"

\* re.search(r"/d/([\w-]+)/", url): the document id of the leftmost match, or None
DocIdMatch(url) ==
    LET ends(i) == {j \in (i + 3)..Len(url) :
                       /\ CharAt(url, j) = "/"
                       /\ j > i + 3
                       /\ \A k \in (i + 3)..(j - 1) : IsDocIdChar(CharAt(url, k))}
        starts == {i \in 1..(Len(url) - 2) : SubSeq(url, i, i + 2) = "/d/" /\ ends(i) # {}}
    IN  IF starts = {} THEN NoneV
        ELSE With(MinOf(starts), LAMBDA i :
                 Some(SubSeq(url, i + 3, (CHOOSE j \in ends(i) : \A k \in ends(i) : k <= j) - 1)))

\* the candidate URLs of a shared-document link, in the order they are tried
_resolver_link_google_docs(url) ==
    With(DocIdMatch(url), LAMBDA match :
        IF IsNone(match) THEN <<url>>
        ELSE With("https://docs.google.com/document/d/" \o Val(match), LAMBDA doc :
                 << doc \o "/export?format=html",
                    doc \o "/export?format=html&embedded=true",
                    doc \o "/export?format=txt",
                    doc \o "/preview",
                    url >>))

\* a row of the allocation document
Row(text, dia, horario) == [_row_text |-> text, Dia |-> dia, Horario |-> horario]

\* what requests.get(candidate) can do: raise (raise_for_status included), be
\* redirected to the authentication page, or return a document, of which the
\* number of tables, the rows _parse_google_table finds in them and the rows
\* _parse_plain_rows_from_doc finds in its text are kept
GetRaises(message) == [kind |-> "raise", err |-> message, tables |-> 0,
                       table_rows |-> <<>>, plain_rows |-> <<>>]
GetAuth == [kind |-> "auth", err |-> "", tables |-> 0, table_rows |-> <<>>, plain_rows |-> <<>>]
GetDoc(tables, table_rows, plain_rows) ==
    [kind |-> "doc", err |-> "", tables |-> tables,
     table_rows |-> table_rows, plain_rows |-> plain_rows]

AuthError == "Documento requer autenticacao."
NoTableError(candidate) == "Nenhuma tabela encontrada no candidato: " \o candidate

RECURSIVE TryCandidates(_, _, _, _, _)
\* the loop of lines 252-279 from candidate i on; gets[i] is what the request of
\* candidate i does.  It yields the accepted candidate and its document (None,
\* None when there is none), last_error and the candidates requested, in order
TryCandidates(candidates, gets, i, last_error, requested) ==
    IF i > Len(candidates)
    THEN [accepted_candidate |-> NoneV, doc |-> NoneV,
          last_error |-> last_error, requested |-> requested]
    ELSE With(candidates[i], LAMBDA candidate :
         With(gets[i], LAMBDA resp :
         With(Append(requested, candidate), LAMBDA req :
             IF resp.kind = "raise"
             THEN TryCandidates(candidates, gets, i + 1, Some(resp.err), req)
             ELSE IF resp.kind = "auth"
             THEN TryCandidates(candidates, gets, i + 1, Some(AuthError), req)
             ELSE IF resp.tables < 1
             THEN TryCandidates(candidates, gets, i + 1, Some(NoTableError(candidate)), req)
             ELSE [accepted_candidate |-> Some(candidate), doc |-> Some(resp),
                   last_error |-> last_error, requested |-> req])))

\* the dict carregar_alocacoes assigns to ALOCACAO_CACHE
Cache(timestamp, rows, doc_url, error) ==
    [timestamp |-> timestamp, rows |-> rows, doc_url |-> doc_url, error |-> error]

EmptyCache == Cache(NoneV, <<>>, NoneV, NoneV)

NoDocLinkError == "Link do documento de alocacao nao configurado."

\* lines 232-234: the cache is reused; rows is read from ALOCACAO_CACHE now,
\* cache_timestamp was read before
CacheIsFresh(rows, cache_timestamp, clock) ==
    Len(rows) > 0 /\ ~_cache_expired(cache_timestamp, ALOCACAO_CACHE_TTL, clock)

\* _resolver_link_google_docs over the configured link, computed once
\* a link that is not a shared-document link: it is its only candidate
PlainLink == "https://exemplo.br/alocacao"

CandidatesOf == [url \in {ALOCACAO_DOC_URL, PlainLink} |-> _resolver_link_google_docs(url)]

\* a refresh that requests the first candidate only
BuildCache_firstCandidateOnly(doc_link, gets, clock) ==
    IF doc_link = ""
    THEN [cache |-> Cache(Some(clock), <<>>, NoneV, Some(NoDocLinkError)), requested |-> <<>>]
    ELSE With(TryCandidates(<<CandidatesOf[doc_link][1]>>, gets, 1, NoneV, <<>>), LAMBDA tried :
         IF IsNone(tried.doc)
         THEN [cache |-> Cache(Some(clock), <<>>, Some(doc_link), tried.last_error),
               requested |-> tried.requested]
         ELSE With(Val(tried.doc), LAMBDA doc :
              [cache |-> Cache(Some(clock),
                               IF Len(doc.table_rows) > 0 THEN doc.table_rows
                               ELSE doc.plain_rows,
                               tried.accepted_candidate, NoneV),
               requested |-> tried.requested]))

\* lines 237-306: the dict a refresh started at time clock builds, and the
\* candidates it requested
BuildCache(doc_link, gets, clock) ==
    IF doc_link = ""
    THEN [cache |-> Cache(Some(clock), <<>>, NoneV, Some(NoDocLinkError)), requested |-> <<>>]
    ELSE With(TryCandidates(CandidatesOf[doc_link], gets, 1, NoneV, <<>>), LAMBDA tried :
         IF IsNone(tried.doc)
         THEN [cache |-> Cache(Some(clock), <<>>, Some(doc_link), tried.last_error),
               requested |-> tried.requested]
         ELSE With(Val(tried.doc), LAMBDA doc :
              [cache |-> Cache(Some(clock),
                               IF Len(doc.table_rows) > 0 THEN doc.table_rows
                               ELSE doc.plain_rows,
                               IF IsNone(tried.accepted_candidate) THEN Some(doc_link)
                               ELSE tried.accepted_candidate, NoneV),
               requested |-> tried.requested]))

\* carregar_alocacoes on the cache it finds at time clock, gets being what the
\* requests do: the dict it leaves in ALOCACAO_CACHE and returns, and the
\* candidates it requested
carregar_alocacoes(cache, doc_link, gets, clock) ==
    IF CacheIsFresh(cache.rows, cache.timestamp, clock)
    THEN [cache |-> cache, requested |-> <<>>]
    ELSE BuildCache(doc_link, gets, clock)

---------------------------------------------------------------------------
(* Directory index: docentes.listar_docentes *)

DirectoryEntry(nome, url) == [nome |-> nome, url |-> url]

\* an assignment d[key] = value in the place of setdefault
DictSetDefault_overwrites(d, k, v) == DictSet(d, k, v)

\* dict.setdefault(key, value)
DictSetDefault(d, k, v) == IF k \in DOMAIN d THEN d ELSE DictSet(d, k, v)

RECURSIVE SplitWords(_)
\* str.split() of a text whose words are separated by single spaces
SplitWords(text) ==
    IF text = "" THEN <<>>
    ELSE With({i \in 1..Len(text) : CharAt(text, i) = " "}, LAMBDA spaces :
         IF spaces = {} THEN <<text>>
         ELSE With(MinOf(spaces), LAMBDA i :
              (IF i = 1 THEN <<>> ELSE <<SubSeq(text, 1, i - 1)>>)
                  \o SplitWords(SubSeq(text, i + 1, Len(text)))))

RECURSIVE IndexPairs(_, _, _, _)
\* lines 131-137: the pairs of adjacent tokens, from position i on
IndexPairs(index, tokens, i, entry) ==
    IF i > Len(tokens) - 1 THEN index
    ELSE IF Len(tokens[i]) < 2 \/ Len(tokens[i + 1]) < 2
    THEN IndexPairs(index, tokens, i + 1, entry)
    ELSE IndexPairs(DictSetDefault(index, tokens[i] \o " " \o tokens[i + 1], entry),
                    tokens, i + 1, entry)

LastNameStops == {"de", "do", "da", "dos", "das"}

\* lines 128-141 for one heading: its key, its pairs of tokens, its last token
IndexHeading(index, key, entry) ==
    With(SplitWords(key), LAMBDA tokens :
    With(IndexPairs(DictSetDefault(index, key, entry), tokens, 1, entry), LAMBDA paired :
        IF Len(tokens) > 1 /\ Len(tokens[Len(tokens)]) >= 2
              /\ tokens[Len(tokens)] \notin LastNameStops
        THEN DictSetDefault(paired, tokens[Len(tokens)], entry)
        ELSE paired))

---------------------------------------------------------------------------
(* The caches as a state machine: threads of one process call               *)
(* carregar_alocacoes and listar_docentes; a thread can be suspended        *)
(* between any two of its accesses to the module-level names                *)

Threads == {"t1", "t2"}

MaxNow == 62
MaxRefreshes == 2

IdleThread ==
    [pc |-> "idle", cache_timestamp |-> NoneV, clock |-> 0, id |-> 0, at |-> 0,
     before |-> EmptyCache, built |-> EmptyCache, index |-> EmptyDict, requested |-> <<>>,
     entries |-> NoneV]

NoLoad ==
    [t |-> "", at |-> 0, before |-> EmptyCache, requested |-> <<>>, passes |-> 0,
     ret |-> EmptyCache]

\* refreshes are numbered from 1; 0 stands for the value the module was loaded with;
\* entries is the number of rows found in the document accepted by the refresh
\* that assigned ALOCACAO_CACHE (None when it accepted none)
NoOrigin == [next |-> 1, index |-> 0, timestamp |-> 0, entries |-> NoneV]

CacheInit ==
    /\ now = 0
    /\ ALOCACAO_CACHE = EmptyCache
    /\ DOCENTES_INDEX_CACHE = EmptyDict
    /\ DOCENTES_INDEX_TIMESTAMP = NoneV
    /\ threads = [t \in Threads |-> IdleThread]
    /\ origin = NoOrigin
    /\ lastLoad = NoLoad

FnInit == input = NoneV /\ output = NoneV

\* the clock advances by d minutes
Tick(d) ==
    /\ now + d <= MaxNow
    /\ now' = now + d
    /\ UNCHANGED <<chatVars, fnVars, ALOCACAO_CACHE, DOCENTES_INDEX_CACHE,
                   DOCENTES_INDEX_TIMESTAMP, threads, origin, lastLoad>>

\* thread t moves to pc with some locals changed
Step(t, th) == threads' = [threads EXCEPT ![t] = th]

\* carregar_alocacoes line 229: cache_timestamp = ALOCACAO_CACHE.get("timestamp")
LoadRead(t) ==
    /\ threads[t].pc = "idle"
    /\ Step(t, [IdleThread EXCEPT !.pc = "load_check",
                    !.cache_timestamp = ALOCACAO_CACHE.timestamp,
                    !.before = ALOCACAO_CACHE])
    /\ UNCHANGED <<chatVars, fnVars, now, ALOCACAO_CACHE, DOCENTES_INDEX_CACHE,
                   DOCENTES_INDEX_TIMESTAMP, origin, lastLoad>>

\* lines 232-234: ALOCACAO_CACHE["rows"] and not _cache_expired(...)
LoadCheck(t) ==
    /\ threads[t].pc = "load_check"
    /\ Step(t, [threads[t] EXCEPT
                    !.pc = IF CacheIsFresh(ALOCACAO_CACHE.rows,
                                           threads[t].cache_timestamp, now)
                           THEN "load_hit" ELSE "load_miss",
                    !.at = now])
    /\ UNCHANGED <<chatVars, fnVars, now, ALOCACAO_CACHE, DOCENTES_INDEX_CACHE,
                   DOCENTES_INDEX_TIMESTAMP, origin, lastLoad>>

\* what a call of thread t that returns ret is recorded as
Loaded(t, passes, ret) ==
    [t |-> t, at |-> threads[t].at, before |-> threads[t].before,
     requested |-> threads[t].requested, passes |-> passes, ret |-> ret]

\* line 235: return ALOCACAO_CACHE
LoadHit(t) ==
    /\ threads[t].pc = "load_hit"
    /\ lastLoad' = Loaded(t, 0, ALOCACAO_CACHE)
    /\ Step(t, IdleThread)
    /\ UNCHANGED <<chatVars, fnVars, now, ALOCACAO_CACHE, DOCENTES_INDEX_CACHE,
                   DOCENTES_INDEX_TIMESTAMP, origin>>

\* the number of rows found in the first document of gets that has a table, in
\* its tables and in its text: None when no request returns such a document
EntriesOf(gets) ==
    With({i \in DOMAIN gets : gets[i].kind = "doc" /\ gets[i].tables >= 1}, LAMBDA docs :
        IF docs = {} THEN NoneV
        ELSE Some(Len(gets[MinOf(docs)].table_rows) + Len(gets[MinOf(docs)].plain_rows)))

\* lines 237-299: now is taken, the candidates are requested (gets is what the
\* requests do) and the new dict is built
LoadFetch(t, gets) ==
    /\ threads[t].pc = "load_miss"
    /\ origin.next <= MaxRefreshes
    /\ With(BuildCache(ALOCACAO_DOC_URL, gets, now), LAMBDA b :
           Step(t, [threads[t] EXCEPT !.pc = "load_assign", !.clock = now,
                        !.id = origin.next, !.built = b.cache,
                        !.requested = b.requested, !.entries = EntriesOf(gets)]))
    /\ origin' = [origin EXCEPT !.next = @ + 1]
    /\ UNCHANGED <<chatVars, fnVars, now, ALOCACAO_CACHE, DOCENTES_INDEX_CACHE,
                   DOCENTES_INDEX_TIMESTAMP, lastLoad>>

\* lines 240, 282 and 301: ALOCACAO_CACHE = {...}
LoadAssign(t) ==
    /\ threads[t].pc = "load_assign"
    /\ ALOCACAO_CACHE' = threads[t].built
    /\ origin' = [origin EXCEPT !.entries = threads[t].entries]
    /\ Step(t, [threads[t] EXCEPT !.pc = "load_return"])
    /\ UNCHANGED <<chatVars, fnVars, now, DOCENTES_INDEX_CACHE,
                   DOCENTES_INDEX_TIMESTAMP, lastLoad>>

\* lines 247, 289 and 312: return ALOCACAO_CACHE
LoadReturn(t) ==
    /\ threads[t].pc = "load_return"
    /\ lastLoad' = Loaded(t, 1, ALOCACAO_CACHE)
    /\ Step(t, IdleThread)
    /\ UNCHANGED <<chatVars, fnVars, now, ALOCACAO_CACHE, DOCENTES_INDEX_CACHE,
                   DOCENTES_INDEX_TIMESTAMP, origin>>

\* the documents a request can return
Row1 == Row("SALA 1 | Algoritmos | Ana Lima", "SEG", "AB")
Row2 == Row("SALA 2 | Redes | Rui Lima", "TER", "CD")

GetOutcomes ==
    {GetRaises("timeout"), GetAuth, GetDoc(0, <<>>, <<Row2>>), GetDoc(1, <<Row1>>, <<>>),
     GetDoc(1, <<>>, <<Row2>>), GetDoc(1, <<>>, <<>>)}

Accepted(resp) == resp.kind = "doc" /\ resp.tables >= 1

\* what the requests of one pass do; the candidates after the accepted one are
\* not requested, so what they would do is fixed
GetSeqs ==
    {gets \in [1..Len(CandidatesOf[ALOCACAO_DOC_URL]) -> GetOutcomes] :
        \A i \in DOMAIN gets :
            (\E j \in 1..(i - 1) : Accepted(gets[j])) => gets[i] = GetAuth}

\* Loads: carregar_alocacoes called by one thread while time passes
NextLoad ==
    \/ LoadRead("t1")
    \/ LoadCheck("t1")
    \/ LoadHit("t1")
    \/ \E gets \in GetSeqs : LoadFetch("t1", gets)
    \/ LoadAssign("t1")
    \/ LoadReturn("t1")
    \/ \E d \in {ALOCACAO_CACHE_TTL, ALOCACAO_CACHE_TTL + 1} : Tick(d)

\* what fetch_html(DOCENTES_URL) can do: raise, or return a page, of which the
\* headings that pass the name and link tests are kept as <<name, href>>
PageRaises == [kind |-> "raise", headings |-> <<>>]
Page(headings) == [kind |-> "page", headings |-> headings]

RECURSIVE BuildIndex(_, _, _)
\* listar_docentes lines 97-141: the index of the headings from position i on
BuildIndex(headings, i, index) ==
    IF i > Len(headings) THEN index
    ELSE BuildIndex(headings, i + 1,
                    IndexHeading(index, _normalize_token(headings[i][1]),
                                 DirectoryEntry(headings[i][1], headings[i][2])))

\* line 88: DOCENTES_INDEX_CACHE is tested
ListRead(t) ==
    /\ threads[t].pc = "idle"
    /\ Step(t, [IdleThread EXCEPT !.pc = IF DOMAIN DOCENTES_INDEX_CACHE = {}
                                         THEN "list_miss" ELSE "list_check"])
    /\ UNCHANGED <<chatVars, fnVars, now, ALOCACAO_CACHE, DOCENTES_INDEX_CACHE,
                   DOCENTES_INDEX_TIMESTAMP, origin, lastLoad>>

\* lines 88-90: not _cache_expired(DOCENTES_INDEX_TIMESTAMP, DOCENTES_CACHE_TTL)
ListCheck(t) ==
    /\ threads[t].pc = "list_check"
    /\ Step(t, [threads[t] EXCEPT
                    !.pc = IF _cache_expired(DOCENTES_INDEX_TIMESTAMP, DOCENTES_CACHE_TTL, now)
                           THEN "list_miss" ELSE "list_hit",
                    !.at = now])
    /\ UNCHANGED <<chatVars, fnVars, now, ALOCACAO_CACHE, DOCENTES_INDEX_CACHE,
                   DOCENTES_INDEX_TIMESTAMP, origin, lastLoad>>

\* line 91: return DOCENTES_INDEX_CACHE
ListHit(t) ==
    /\ threads[t].pc = "list_hit"
    /\ Step(t, IdleThread)
    /\ UNCHANGED <<chatVars, fnVars, now, ALOCACAO_CACHE, DOCENTES_INDEX_CACHE,
                   DOCENTES_INDEX_TIMESTAMP, origin, lastLoad>>

\* lines 92-141: the page is fetched; when that raises the call returns
\* DOCENTES_INDEX_CACHE, else the index is built in a local
ListFetch(t, page) ==
    /\ threads[t].pc = "list_miss"
    /\ origin.next <= MaxRefreshes
    /\ IF page.kind = "raise"
       THEN Step(t, IdleThread) /\ UNCHANGED origin
       ELSE /\ Step(t, [threads[t] EXCEPT !.pc = "list_assign_index", !.id = origin.next,
                            !.index = BuildIndex(page.headings, 1, EmptyDict)])
            /\ origin' = [origin EXCEPT !.next = @ + 1]
    /\ UNCHANGED <<chatVars, fnVars, now, ALOCACAO_CACHE, DOCENTES_INDEX_CACHE,
                   DOCENTES_INDEX_TIMESTAMP, lastLoad>>

\* line 142: DOCENTES_INDEX_CACHE = index
ListAssignIndex(t) ==
    /\ threads[t].pc = "list_assign_index"
    /\ DOCENTES_INDEX_CACHE' = threads[t].index
    /\ origin' = [origin EXCEPT !.index = threads[t].id]
    /\ Step(t, [threads[t] EXCEPT !.pc = "list_assign_timestamp"])
    /\ UNCHANGED <<chatVars, fnVars, now, ALOCACAO_CACHE, DOCENTES_INDEX_TIMESTAMP, lastLoad>>

\* lines 143-144: DOCENTES_INDEX_TIMESTAMP = datetime.datetime.now(); return index
ListAssignTimestamp(t) ==
    /\ threads[t].pc = "list_assign_timestamp"
    /\ DOCENTES_INDEX_TIMESTAMP' = Some(now)
    /\ origin' = [origin EXCEPT !.timestamp = threads[t].id]
    /\ Step(t, IdleThread)
    /\ UNCHANGED <<chatVars, fnVars, now, ALOCACAO_CACHE, DOCENTES_INDEX_CACHE, lastLoad>>

\* the pages and the documents of the refreshes
Pages ==
    {PageRaises, Page(<<>>),
     Page(<< <<"Ana Lima", "https://www.quixada.ufc.br/docente/ana-lima/">> >>),
     Page(<< <<"Rui de Lima", "https://www.quixada.ufc.br/docente/rui-lima/">>,
             <<"Ana Lima", "https://www.quixada.ufc.br/docente/ana-lima/">> >>)}

RefreshGets ==
    {gets \in GetSeqs :
        /\ gets[1] \in {GetRaises("timeout"), GetDoc(1, <<Row1>>, <<>>), GetDoc(1, <<>>, <<Row2>>)}
        /\ \A i \in 2..Len(gets) : gets[i] = (IF Accepted(gets[1]) THEN GetAuth ELSE gets[1])}

\* Refreshes: the threads of one process call carregar_alocacoes and
\* listar_docentes while time passes
NextRefresh ==
    \/ \E t \in Threads :
          \/ LoadRead(t)
          \/ LoadCheck(t)
          \/ LoadHit(t)
          \/ \E gets \in RefreshGets : LoadFetch(t, gets)
          \/ LoadAssign(t)
          \/ LoadReturn(t)
          \/ ListRead(t)
          \/ ListCheck(t)
          \/ ListHit(t)
          \/ \E page \in Pages : ListFetch(t, page)
          \/ ListAssignIndex(t)
          \/ ListAssignTimestamp(t)
    \/ Tick(ALOCACAO_CACHE_TTL + 1)

---------------------------------------------------------------------------
(* The workers as a state machine *)

NoCall ==
    [kind |-> "init", w |-> "", s |-> "", message |-> "",
     in |-> DefaultIn, result |-> Reply(0, "", ""), path |-> "", ops |-> <<>>,
     before |-> NoneV, cached |-> FALSE]

InitProgram ==
    /\ redisUrl \in BOOLEAN
    /\ my_tools \in ToolLists
    /\ reachable \in BOOLEAN
    /\ connected = [w \in Workers |-> FALSE]
    /\ memHist = [w \in Workers |-> EmptyDict]
    /\ memState = [w \in Workers |-> EmptyDict]
    /\ redisHist = EmptyDict
    /\ redisState = EmptyDict
    /\ sessState = [w \in Workers |-> EmptyDict]
    /\ chats = [w \in Workers |-> {}]
    /\ sent = [w \in Workers |-> [s \in Sessions |-> <<>>]]
    /\ last = NoCall
    /\ appending = [w \in Workers |-> NoneV]
    /\ CacheInit

Init == InitProgram /\ FnInit

\* the state a handler leaves, and the record of the call
Commit(r, call) ==
    /\ connected' = r.wd.st.conn
    /\ memHist' = r.wd.st.mh
    /\ memState' = r.wd.st.ms
    /\ redisHist' = r.wd.st.rh
    /\ redisState' = r.wd.st.rs
    /\ sessState' = r.wd.ss
    /\ chats' = r.wd.chats
    /\ sent' = r.wd.sent
    /\ last' = [call EXCEPT !.result = r.result, !.path = r.path, !.ops = r.wd.ops]
    /\ UNCHANGED <<redisUrl, my_tools, reachable, appending, cacheVars, fnVars>>

\* a session id made by uuid4 has never been used by any worker
Fresh(s) ==
    /\ s \notin DOMAIN redisHist /\ s \notin DOMAIN redisState
    /\ \A w \in Workers :
          /\ s \notin DOMAIN memHist[w] /\ s \notin DOMAIN memState[w]
          /\ s \notin DOMAIN sessState[w] /\ s \notin chats[w]

\* chat.start_chat run by worker w for the id POST /start-chat has just made
StartChat(w, s) ==
    /\ s \in IssuedIds
    /\ Fresh(s)
    /\ \E createOut \in CreateOutcomes :
          LET in == [DefaultIn EXCEPT !.createOut = createOut]
          IN  Commit(start_chat(World, w, s, SystemInstr, in),
                     [NoCall EXCEPT !.kind = "start_chat", !.w = w, !.s = s, !.in = in])

UserPositions(messages) == {i \in 1..Len(messages) : messages[i].role = "user"}

\* the environment outcomes handle_chat_message would consume under in
UsedBy(w, s, message, tools, in) == handle_chat_message(World, w, s, message, tools, in).used

Pick(used, name, outcomes, default) == IF name \in used THEN outcomes ELSE {default}

\* chat.handle_chat_message(client, s, message, SESSION_STATE, logger, tools)
\* run by worker w
HandleChatMessage(w, s, message, tools) ==
    LET got == get_messages(Ensured(Store, w), w, s)
        users == IF IsNone(got) THEN {} ELSE UserPositions(Val(got))
        U(in) == UsedBy(w, s, message, tools, in)
    IN  /\ (IF IsNone(got) THEN TRUE ELSE Len(Val(got)) < MaxLog)
        /\ \E createOut \in Pick(U(DefaultIn), "create", CreateOutcomes, DefaultIn.createOut) :
           \E fails \in Pick(U([DefaultIn EXCEPT !.createOut = createOut]), "replay",
                             SUBSET users, {}) :
           LET in1 == [DefaultIn EXCEPT !.createOut = createOut, !.fails = fails]
           IN  \E o1 \in Pick(U(in1), "o1", SendOutcomes, DefaultIn.o1) :
               LET in2 == [in1 EXCEPT !.o1 = o1]
               IN  \E o2 \in Pick(U(in2), "o2", RetryOutcomes, DefaultIn.o2),
                      toolOut \in Pick(U(in2), "tool", ToolOutcomes, DefaultIn.toolOut) :
                   LET in3 == [in2 EXCEPT !.o2 = o2, !.toolOut = toolOut]
                   IN  \E followOut \in Pick(U(in3), "follow", FollowupOutcomes,
                                             DefaultIn.followOut) :
                       LET in4 == [in3 EXCEPT !.followOut = followOut]
                       IN  \E renderRaises \in Pick(U(in4), "render", BOOLEAN, FALSE) :
                           LET in == [in4 EXCEPT !.renderRaises = renderRaises]
                           IN  Commit(handle_chat_message(World, w, s, message, tools, in),
                                      [NoCall EXCEPT !.kind = "chat", !.w = w, !.s = s,
                                           !.message = message,
                                           !.in = in, !.before = got,
                                           !.cached = s \in chats[w]])

\* the Redis server becomes reachable or unreachable
EnvRedis ==
    /\ redisUrl
    /\ reachable' = ~reachable
    /\ UNCHANGED <<redisUrl, my_tools, connected, memHist, memState, redisHist, redisState,
                   sessState, chats, sent, last, appending, cacheVars, fnVars>>

Next ==
    \/ \E w \in Workers, s \in Sessions : StartChat(w, s)
    \/ \E w \in Workers, s \in Sessions, message \in Messages :
          HandleChatMessage(w, s, message, my_tools)
    \/ EnvRedis

Spec == Init /\ [][Next]_vars

---------------------------------------------------------------------------
(* The functions of session_store called directly, by any worker for any   *)
(* session id                                                              *)

\* the list a direct create_session / set_messages stores: what start_chat stores
InitialMessages == <<Msg("system", SystemInstr), Msg("assistant", WelcomeMsg)>>

\* a pending selection a tool could leave for a session

\* a call of worker w that only touches the store; when the call makes the
\* connection, last keeps the call and what w held in memory and what Redis
\* held when it was made
CommitStore(st, kind, w, s) ==
    /\ connected' = st.conn
    /\ memHist' = st.mh
    /\ memState' = st.ms
    /\ redisHist' = st.rh
    /\ redisState' = st.rs
    /\ last' = IF st.conn[w] /\ ~connected[w]
               THEN [NoCall EXCEPT !.kind = kind, !.w = w, !.s = s, !.path = "connected",
                        !.before = Some([memHist |-> memHist[w], memState |-> memState[w],
                                         redisHist |-> redisHist, redisState |-> redisState])]
               ELSE NoCall
    /\ UNCHANGED <<redisUrl, my_tools, reachable, sessState, chats, sent, appending,
                   cacheVars, fnVars>>

InitStore == Init /\ my_tools = my_tools_registered

ApiCreateSession(w, s) ==
    CommitStore(create_session(Ensured(Store, w), w, s, InitialMessages), "create_session", w, s)

ApiAppendMessage(w, s, role, content, maxLen) ==
    LET got == get_messages(Ensured(Store, w), w, s)
    IN  /\ (IF IsNone(got) THEN TRUE ELSE Len(Val(got)) < maxLen)
        /\ CommitStore(append_message(Store, w, s, role, content), "append_message", w, s)

ApiSetMessages(w, s) ==
    CommitStore(set_messages(Store, w, s, InitialMessages), "set_messages", w, s)

ApiDeleteSession(w, s) ==
    CommitStore(delete_session(Store, w, s), "delete_session", w, s)

ApiSetState(w, s, state) ==
    CommitStore(set_state(Store, w, s, state), "set_state", w, s)

ApiGetMessages(w, s) ==
    CommitStore(Ensured(Store, w), "get_messages", w, s)

NextStore ==
    \/ \E w \in Workers, s \in Sessions : ApiCreateSession(w, s)
    \/ \E w \in Workers, s \in Sessions : ApiAppendMessage(w, s, "user", "oi", MaxStoreLog)
    \/ \E w \in Workers, s \in Sessions : ApiSetMessages(w, s)
    \/ \E w \in Workers, s \in Sessions : ApiDeleteSession(w, s)
    \/ \E w \in Workers, s \in IssuedIds, state \in {NoPending, SomePending} :
          ApiSetState(w, s, state)
    \/ \E w \in Workers, s \in Sessions : ApiGetMessages(w, s)
    \/ EnvRedis

SpecStore == InitStore /\ [][NextStore]_vars

---------------------------------------------------------------------------
(* append_message called by the workers at the same time: the call is a     *)
(* get_messages followed by a set_messages, two commands to the store, and  *)
(* another worker's commands can come between them                          *)

AppendTexts == {"oi", "ola"}

\* the store after a step of an append_message of worker w
AppendStep(st, w, local) ==
    /\ connected' = st.conn
    /\ memHist' = st.mh
    /\ memState' = st.ms
    /\ redisHist' = st.rh
    /\ redisState' = st.rs
    /\ appending' = [appending EXCEPT ![w] = local]
    /\ UNCHANGED <<redisUrl, my_tools, reachable, sessState, chats, sent, last,
                   cacheVars, fnVars>>

\* append_message, lines 165-168: messages = get_messages(session_id), [] when
\* it is None, and messages.append(record)
AppendGet(w, s, role, text) ==
    /\ IsNone(appending[w])
    /\ With(Ensured(Store, w), LAMBDA st :
       With(get_messages(st, w, s), LAMBDA got :
       With(IF IsNone(got) THEN <<>> ELSE Val(got), LAMBDA messages :
           /\ Len(messages) < MaxAppendLog
           /\ AppendStep(st, w, Some([s |-> s, messages |-> Append(messages, Msg(role, text)),
                                      read |-> got])))))

\* append_message, line 169: set_messages(session_id, messages)
AppendSet(w) ==
    /\ ~IsNone(appending[w])
    /\ AppendStep(set_messages(Store, w, Val(appending[w]).s, Val(appending[w]).messages),
                  w, NoneV)

NextAppend ==
    \/ \E w \in Workers, s \in IssuedIds, text \in AppendTexts : AppendGet(w, s, "user", text)
    \/ \E w \in Workers : AppendSet(w)
    \/ EnvRedis

SpecAppend == InitStore /\ [][NextAppend]_vars

---------------------------------------------------------------------------
(* ensure_chat_obj called directly on the logs the store functions build   *)

ApiEnsureChatObj(w, s) ==
    LET got == get_messages(Ensured(Store, w), w, s)
        users == IF IsNone(got) THEN {} ELSE UserPositions(Val(got))
    IN  \E createOut \in (IF s \in chats[w] THEN {DefaultIn.createOut} ELSE CreateOutcomes) :
        \E fails \in (IF s \in chats[w] \/ ~createOut.ok THEN {{}} ELSE SUBSET users) :
           LET e == ensure_chat_obj(World, w, s, SystemInstr, createOut, fails)
           IN  Commit([wd |-> e.wd, result |-> Reply(0, e.err, ""),
                       path |-> IF e.raised THEN "raised" ELSE "returned", used |-> {}],
                      [NoCall EXCEPT !.kind = "ensure_chat_obj", !.w = w, !.s = s,
                          !.in = [DefaultIn EXCEPT !.createOut = createOut, !.fails = fails],
                          !.before = got, !.cached = s \in chats[w]])

\* the worker whose handle is rebuilt
Rehydrating == {"w1"}

NextRehydrate ==
    \/ \E w \in Rehydrating, s \in IssuedIds : ApiCreateSession(w, s)
    \/ \E w \in Rehydrating, s \in IssuedIds, message \in Messages :
          ApiAppendMessage(w, s, "user", message, MaxReplayLog)
    \/ \E w \in Rehydrating, s \in IssuedIds : ApiEnsureChatObj(w, s)
    \/ EnvRedis

SpecRehydrate == InitStore /\ [][NextRehydrate]_vars

---------------------------------------------------------------------------
(* The routes of main.py: POST /start-chat and POST /chat/{session_id} *)

\* the parameters of chat.handle_chat_message in order; the first five have no default
HandlerParams == <<"client", "session_id", "message", "session_state", "logger", "my_tools">>
HandlerRequired == 5

\* a call with positional arguments binds each to the parameter in its
\* position; None stands for the TypeError raised when there are too many or
\* a parameter without default is left without one
BindPositional(params, required, args) ==
    IF Len(args) > Len(params) \/ Len(args) < required THEN NoneV
    ELSE Some([name \in {params[i] : i \in 1..Len(args)} |->
                  args[CHOOSE i \in 1..Len(args) : params[i] = name]])

RouteDetail == "Erro interno no servidor ao processar a mensagem. Por favor, tente novamente mais tarde."

\* main.chat, POST /chat/{s} with the message, served by worker w: the handler
\* is called with session_id, request.message, SESSION_STATE and logger; an
\* HTTPException is passed on and any other exception is answered 500
chat(w, s, message) ==
    LET bound == BindPositional(HandlerParams, HandlerRequired,
                                <<s, message, "SESSION_STATE", "logger">>)
    IN  IF IsNone(bound)
        THEN Commit(Ret(World, HTTPException(500, RouteDetail), "type_error", {}),
                    [NoCall EXCEPT !.kind = "route", !.w = w, !.s = s, !.message = message,
                         !.before = get_messages(Ensured(Store, w), w, s),
                         !.cached = s \in chats[w]])
        ELSE HandleChatMessage(w, Val(bound)["session_id"], Val(bound)["message"], <<>>)

NextRoutes ==
    \/ \E w \in Workers, s \in Sessions : StartChat(w, s)
    \/ \E w \in Workers, s \in Sessions, message \in Messages : chat(w, s, message)
    \/ EnvRedis

SpecRoutes == Init /\ [][NextRoutes]_vars

---------------------------------------------------------------------------
(* Messages sent while a selection is pending: set_state stores the         *)
(* selection, as a tool that offers options would                           *)

NextPending ==
    \/ \E w \in Rehydrating, s \in IssuedIds : StartChat(w, s)
    \/ \E w \in Workers, s \in IssuedIds, state \in {SomePending, ThreePending} :
          ApiSetState(w, s, state)
    \/ \E w \in Rehydrating, s \in IssuedIds, message \in SelectionMessages :
          HandleChatMessage(w, s, message, my_tools)
    \/ EnvRedis

SpecPending == InitStore /\ [][NextPending]_vars

\* a stored state with a selection pending and one more key
NotedPending ==
    [pending_selection |-> SomePending.pending_selection, topic |-> "docentes"]

\* the same, with sessions that another worker starts and states that hold a
\* second key
NextSelection ==
    \/ \E w \in Workers \ Rehydrating, s \in IssuedIds : StartChat(w, s)
    \/ \E w \in Rehydrating, s \in IssuedIds, state \in {SomePending, NotedPending} :
          ApiSetState(w, s, state)
    \/ \E w \in Workers, s \in IssuedIds, message \in {"1", "3"} :
          HandleChatMessage(w, s, message, my_tools)
    \/ EnvRedis

SpecSelection == InitStore /\ [][NextSelection]_vars

---------------------------------------------------------------------------
(* The caches of one process, with the chat workers left aside *)

InitCache == InitStore /\ ~redisUrl /\ ~reachable

SpecLoad == InitCache /\ [][NextLoad]_vars

SpecRefresh == InitCache /\ [][NextRefresh]_vars

---------------------------------------------------------------------------
(* Functions applied to arguments: the arguments are drawn in the initial  *)
(* state and one step applies the function                                  *)

InitFn ==
    /\ InitProgram /\ ~redisUrl /\ ~reachable /\ my_tools = my_tools_registered
    /\ output = NoneV

\* what a call did: it returned value, or raised exc
Returns(value) == [raised |-> FALSE, exc |-> "", value |-> value]
RaisesExc(exc) == [raised |-> TRUE, exc |-> exc, value |-> ""]

\* the function has not been applied yet, and output' is what it does
Applies(result) ==
    /\ IsNone(output)
    /\ output' = Some(result)
    /\ UNCHANGED <<chatVars, cacheVars, input>>

RECURSIVE Repeat(_, _)
\* the Python expression  s * n
Repeat(str, n) == IF n <= 0 THEN "" ELSE str \o Repeat(str, n - 1)

RECURSIVE Join(_, _)
\* sep.join(parts)
Join(parts, sep) ==
    IF Len(parts) = 0 THEN ""
    ELSE IF Len(parts) = 1 THEN parts[1]
    ELSE parts[1] \o sep \o Join(Tail(parts), sep)

RECURSIVE SplitAt(_, _)
\* text.split(c) for a single character c
SplitAt(text, c) ==
    With({i \in 1..Len(text) : CharAt(text, i) = c}, LAMBDA at :
        IF at = {} THEN <<text>>
        ELSE With(MinOf(at), LAMBDA i :
                 <<SubSeq(text, 1, i - 1)>> \o SplitAt(SubSeq(text, i + 1, Len(text)), c)))

---------------------------------------------------------------------------
(* feriados.build_status_report *)

\* what requests.get does for one site: a response with a status code, or an exception
Responds(code) == [kind |-> "status", code |-> code, exc |-> ""]
Fails(exc) == [kind |-> "raise", code |-> 0, exc |-> exc]

\* the exception classes that are requests.exceptions.RequestException or derive from it
RequestExceptions == {"requests.exceptions.ConnectionError", "requests.exceptions.Timeout"}

MaxLineLen == 200
MaxReportLen == 2000

\* lines 27-29: the line of one site
StatusLine(name, status) ==
    With("- " \o name \o ": " \o status, LAMBDA line :
        IF Len(line) > MaxLineLen THEN "- " \o name \o ": " \o status \o " (truncated)"
        ELSE line)

RECURSIVE StatusLines(_, _, _, _)
\* the loop of lines 17-30 from site i on: names are the keys of urls in order and
\* gets[i] is what the request of site i does.  An exception that is not a
\* RequestException leaves the loop and the function
StatusLines(names, gets, i, lines) ==
    IF i > Len(names) THEN Returns(lines)
    ELSE IF gets[i].kind = "status"
    THEN StatusLines(names, gets, i + 1,
                     Append(lines, StatusLine(names[i], IF gets[i].code = 200 THEN "ONLINE"
                                                        ELSE "OFFLINE")))
    ELSE IF gets[i].exc \in RequestExceptions
    THEN StatusLines(names, gets, i + 1, Append(lines, StatusLine(names[i], "OFFLINE")))
    ELSE [raised |-> TRUE, exc |-> gets[i].exc, value |-> <<>>]

build_status_report(title, names, gets) ==
    With(StatusLines(names, gets, 1, <<title>>), LAMBDA looped :
        IF looped.raised THEN RaisesExc(looped.exc)
        ELSE With(Join(looped.value, "\n"), LAMBDA report :
                 Returns(IF Len(report) > MaxReportLen
                         THEN SubSeq(report, 1, MaxReportLen) \o "... (truncated)"
                         ELSE report)))

StatusTitle == "=== STATUS ==="
SiteNames == <<"Sigaa", "Moodle", "RU">>
MaxSites == 3

GetResults ==
    {Responds(200), Responds(404), Responds(500)}
        \cup {Fails(exc) : exc \in RequestExceptions \cup {"Exception"}}

\* ten sites with names of 200 characters, all answering 200
LongSites == [i \in 1..10 |-> Repeat("x", 199) \o CharAt(Digits, i)]

StatusInputs ==
    {[title |-> StatusTitle, names |-> SubSeq(SiteNames, 1, Len(gets)), gets |-> gets] :
         gets \in UNION {[1..k -> GetResults] : k \in 0..MaxSites}}
        \cup {[title |-> StatusTitle, names |-> LongSites, gets |-> [i \in 1..10 |-> Responds(200)]]}

BuildStatusReport == Applies(build_status_report(input.title, input.names, input.gets))

InitStatus == InitFn /\ input \in StatusInputs

SpecStatus == InitStatus /\ [][BuildStatusReport]_vars

---------------------------------------------------------------------------
(* tooling.parse_tool_call_from_text: the arguments of the call *)

\* typed values of keyword arguments; a float is kept as its digits
StrVal(str) == [type |-> "str", val |-> str]
BoolVal(b) == [type |-> "bool", val |-> b]
IntVal(n) == [type |-> "int", val |-> n]
FloatVal(whole, frac) == [type |-> "float", val |-> <<whole, frac>>]

\* group 2 of the match that starts at line start p, stripped: what stands
\* between the "(" after the name and the last ")" of that line
CallArgsAt(text, p) ==
    With(NextNonSpace(text, NameEnd(text, NextNonSpace(text, p)) + 1), LAMBDA c :
    With({e \in (c + 1)..Len(text) :
             CharAt(text, e) = ")" /\ \A j \in (c + 1)..e : CharAt(text, j) # "\n"},
         LAMBDA closes :
        Strip(SubSeq(text, c + 1, (CHOOSE e \in closes : \A x \in closes : x <= e) - 1))))

Quotes == {"\"", "'"}

RECURSIVE SplitArgs(_, _, _, _, _, _)
\* lines 229-247: the arguments are cut at the commas that are outside quotes
\* and parentheses; quote_char is "" while not in a quote
SplitArgs(args_str, i, curr, depth, quote_char, parts) ==
    IF i > Len(args_str)
    THEN (IF curr # "" THEN Append(parts, Strip(curr)) ELSE parts)
    ELSE LET ch == CharAt(args_str, i)
             quote == IF ch \notin Quotes THEN quote_char
                      ELSE IF quote_char = ch THEN ""
                      ELSE IF quote_char = "" THEN ch ELSE quote_char
         IN  IF quote = "" /\ ch = "," /\ depth = 0
             THEN SplitArgs(args_str, i + 1, "", depth, quote, Append(parts, Strip(curr)))
             ELSE SplitArgs(args_str, i + 1, curr \o ch,
                            IF quote # "" THEN depth
                            ELSE IF ch = "(" THEN depth + 1
                            ELSE IF ch = ")" THEN depth - 1 ELSE depth,
                            quote, parts)

RECURSIVE RStripCommas(_)
\* v.rstrip(",")
RStripCommas(v) ==
    IF Len(v) > 0 /\ CharAt(v, Len(v)) = "," THEN RStripCommas(SubSeq(v, 1, Len(v) - 1)) ELSE v

\* int(v) succeeds: digits with an optional sign (on the texts used here)
IsIntText(v) ==
    IF Len(v) > 0 /\ CharAt(v, 1) \in {"-", "+"} THEN IsDigitStr(SubSeq(v, 2, Len(v)))
    ELSE IsDigitStr(v)

IntOf(v) ==
    IF CharAt(v, 1) = "-" THEN 0 - ToInt(SubSeq(v, 2, Len(v)))
    ELSE IF CharAt(v, 1) = "+" THEN ToInt(SubSeq(v, 2, Len(v)))
    ELSE ToInt(v)

\* float(v) succeeds: digits, a point, digits (on the texts used here)
IsFloatText(v) ==
    \E i \in 2..(Len(v) - 1) :
        /\ CharAt(v, i) = "."
        /\ IsIntText(SubSeq(v, 1, i - 1))
        /\ IsDigitStr(SubSeq(v, i + 1, Len(v)))

FloatOf(v) ==
    With(CHOOSE i \in 2..(Len(v) - 1) : CharAt(v, i) = ".", LAMBDA i :
        FloatVal(IntOf(SubSeq(v, 1, i - 1)), SubSeq(v, i + 1, Len(v))))

\* lines 253-267: the value of one argument
ParseValue(v) ==
    IF Len(v) > 0 /\ \E q \in Quotes : CharAt(v, 1) = q /\ CharAt(v, Len(v)) = q
    THEN StrVal(SubSeq(v, 2, Len(v) - 1))
    ELSE IF Casefold(v) \in {"true", "false"} THEN BoolVal(Casefold(v) = "true")
    ELSE IF IsIntText(v) THEN IntVal(IntOf(v))
    ELSE IF IsFloatText(v) THEN FloatOf(v)
    ELSE StrVal(v)

RECURSIVE ParseParts(_, _, _)
\* lines 248-268: the mapping built from the parts, from part i on
ParseParts(parts, i, kwargs) ==
    IF i > Len(parts) THEN kwargs
    ELSE With({j \in 1..Len(parts[i]) : CharAt(parts[i], j) = "="}, LAMBDA eqs :
         IF eqs = {} THEN ParseParts(parts, i + 1, kwargs)
         ELSE With(MinOf(eqs), LAMBDA j :
              ParseParts(parts, i + 1,
                         DictSet(kwargs, Strip(SubSeq(parts[i], 1, j - 1)),
                                 ParseValue(RStripCommas(
                                     Strip(SubSeq(parts[i], j + 1, Len(parts[i])))))))))

\* parse_tool_call_from_text as a whole: None for (None, None), else the name and the mapping
ParsedCall(text) ==
    With({p \in 1..Len(text) : CallMatchAt(text, p)}, LAMBDA starts :
        IF text = "" \/ IsSubstr("exemplo", Casefold(text)) \/ IsSubstr("ex:", Casefold(text))
              \/ IsSubstr(CodeFence, text) \/ starts = {}
        THEN NoneV
        ELSE Some([func_name |-> parse_tool_call_from_text(text),
                   kwargs |-> ParseParts(SplitArgs(CallArgsAt(text, MinOf(starts)), 1, "", 0,
                                                   "", <<>>), 1, EmptyDict)]))

\* how a model writes a call: the value of an argument, the argument, the call
WriteValue(v) ==
    IF v.type = "str" THEN "\"" \o v.val \o "\""
    ELSE IF v.type = "quoted" THEN "'" \o v.val \o "'"
    ELSE v.val

WrittenArgs ==
    { <<>>,
      << <<"nome", StrVal("Ana Lima")>> >>,
      << <<"nome", [type |-> "quoted", val |-> "Ana"]>>, <<"email", [type |-> "raw", val |-> "False"]>> >>,
      << <<"nome", StrVal("lima, ana (si)")>>, <<"email", [type |-> "raw", val |-> "True"]>> >>,
      << <<"page", [type |-> "raw", val |-> "2"]>>, <<"ratio", [type |-> "raw", val |-> "0.75"]>> >>,
      << <<"page", [type |-> "raw", val |-> "-3"]>>, <<"ok", [type |-> "raw", val |-> "true"]>> >> }

\* the typed value the written value stands for
MeantValue(v) ==
    IF v.type \in {"str", "quoted"} THEN StrVal(v.val)
    ELSE IF v.val \in {"True", "true"} THEN BoolVal(TRUE)
    ELSE IF v.val = "False" THEN BoolVal(FALSE)
    ELSE IF v.val = "2" THEN IntVal(2)
    ELSE IF v.val = "-3" THEN IntVal(0 - 3)
    ELSE FloatVal(0, "75")

MeantKwargs(args) ==
    [k \in {args[i][1] : i \in 1..Len(args)} |->
        MeantValue(args[CHOOSE i \in 1..Len(args) : args[i][1] = k][2])]

WriteArgs(args, eq) ==
    Join([i \in 1..Len(args) |-> args[i][1] \o eq \o WriteValue(args[i][2])], ", ")

WriteCall(before, wrapped, prefix, tool, args, eq) ==
    before \o (IF wrapped THEN "print(" ELSE "") \o prefix \o tool
        \o "(" \o WriteArgs(args, eq) \o ")" \o (IF wrapped THEN ")" ELSE "")

\* what can stand before the call: nothing, an indented new line, a marker of an example
Befores == {"", "Ok.\n  ", "Exemplo:\n", "ex:\n", "EX: ", CodeFence \o "python\n"}

ParseInputs ==
    {[text |-> WriteCall(before, wrapped, prefix, tool, args, eq),
      before |-> before, wrapped |-> wrapped, tool |-> tool, args |-> args] :
        before \in Befores, wrapped \in BOOLEAN, prefix \in {"", "default_api."},
        tool \in {"some_tool"}, args \in WrittenArgs, eq \in {"=", " = "}}
      \cup {[text |-> t, before |-> "", wrapped |-> FALSE, tool |-> "", args |-> <<>>] :
               t \in {"", "this is not a call"}}

ParseToolCall == Applies(Returns(ParsedCall(input.text)))

InitParse == InitFn /\ input \in ParseInputs

SpecParse == InitParse /\ [][ParseToolCall]_vars

---------------------------------------------------------------------------
(* tooling.find_tool_by_name applied to a list of tools and a name *)

\* a decorated tool: its own names are those of the wrapper
DecoratedTool ==
    [__name__ |-> "wrapper", __qualname__ |-> "Outer.wrapper", __module__ |-> "modules.deco",
     wrapped |-> Some([__name__ |-> "inner", __qualname__ |-> "Outer.inner"])]

FindToolLists ==
    {<<>>, my_tools_registered, <<Tool("buscar_feriados", "modules.feriados"), DecoratedTool>>}

FindNames ==
    {prefix \o base :
        prefix \in {"", "default_api.", "modules.feriados.", "MODULES.DECO."},
        base \in {"", "buscar_feriados", "Buscar_Feriados", "buscar_dados_professores",
                  "feriados", "buscar", "print", "inner", "Outer.Inner", "WRAPPER",
                  "buscar_feriados_2"}}

FindInputs == [tools : FindToolLists, func_name : FindNames]

FindTool == Applies(Returns(find_tool_by_name(input.tools, input.func_name)))

InitFind == InitFn /\ input \in FindInputs

SpecFind == InitFind /\ [][FindTool]_vars

---------------------------------------------------------------------------
(* tooling.extract_function_call_from_response on the shapes a response     *)
(* can have, with json.loads on the texts used here                         *)

DictVal(d) == [type |-> "dict", val |-> d]
ListVal(l) == [type |-> "list", val |-> l]
NullVal == [type |-> "null", val |-> ""]

\* a JSON number without fraction: "0", or digits not starting with 0, with an optional "-"
IsJsonInt(v) ==
    LET digits == IF Len(v) > 0 /\ CharAt(v, 1) = "-" THEN SubSeq(v, 2, Len(v)) ELSE v
    IN  IsDigitStr(digits) /\ (Len(digits) = 1 \/ CharAt(digits, 1) # "0")

\* a JSON string without escapes
IsJsonString(v) ==
    /\ Len(v) >= 2 /\ CharAt(v, 1) = "\"" /\ CharAt(v, Len(v)) = "\""
    /\ \A i \in 2..(Len(v) - 1) : CharAt(v, i) \notin {"\"", "\\"}

IsJsonScalar(v) == IsJsonString(v) \/ IsJsonInt(v) \/ v \in {"true", "false", "null"}

JsonScalar(v) ==
    IF IsJsonString(v) THEN StrVal(SubSeq(v, 2, Len(v) - 1))
    ELSE IF v = "null" THEN NullVal
    ELSE IF v \in {"true", "false"} THEN BoolVal(v = "true")
    ELSE IntVal(IntOf(v))

RECURSIVE JsonSplit(_, _, _, _, _)
\* the pieces of text between the commas that are outside strings
JsonSplit(text, i, curr, in_string, parts) ==
    IF i > Len(text) THEN Append(parts, Strip(curr))
    ELSE LET ch == CharAt(text, i)
         IN  IF ch = "," /\ ~in_string
             THEN JsonSplit(text, i + 1, "", in_string, Append(parts, Strip(curr)))
             ELSE JsonSplit(text, i + 1, curr \o ch,
                            IF ch = "\"" THEN ~in_string ELSE in_string, parts)

\* a member "key": value of an object: where its key ends, 0 when it is not one
MemberKeyEnd(member) ==
    LET closes == {i \in 2..Len(member) : CharAt(member, i) = "\""}
        e == MinOf(closes)
        rest == Strip(SubSeq(member, e + 1, Len(member)))
    IN  IF Len(member) < 2 \/ CharAt(member, 1) # "\"" \/ closes = {} THEN 0
        ELSE IF Len(rest) < 2 \/ CharAt(rest, 1) # ":" THEN 0
        ELSE IF IsJsonScalar(Strip(SubSeq(rest, 2, Len(rest)))) THEN e ELSE 0

MemberValue(member) ==
    LET rest == Strip(SubSeq(member, MemberKeyEnd(member) + 1, Len(member)))
    IN  JsonScalar(Strip(SubSeq(rest, 2, Len(rest))))

\* json.loads(text): ok is FALSE when it raises; objects and arrays hold scalars
JsonLoads(text) ==
    LET t == Strip(text)
        inner == Strip(SubSeq(t, 2, Len(t) - 1))
        parts == JsonSplit(inner, 1, "", FALSE, <<>>)
    IN  IF t = "" THEN [ok |-> FALSE, val |-> NullVal]
        ELSE IF IsJsonScalar(t) THEN [ok |-> TRUE, val |-> JsonScalar(t)]
        ELSE IF Len(t) >= 2 /\ CharAt(t, 1) = "{" /\ CharAt(t, Len(t)) = "}"
        THEN IF inner = "" THEN [ok |-> TRUE, val |-> DictVal(EmptyDict)]
             ELSE IF \E i \in 1..Len(parts) : MemberKeyEnd(parts[i]) = 0
             THEN [ok |-> FALSE, val |-> NullVal]
             ELSE [ok |-> TRUE,
                   val |-> DictVal(
                       [k \in {SubSeq(parts[i], 2, MemberKeyEnd(parts[i]) - 1) :
                                  i \in 1..Len(parts)} |->
                           MemberValue(parts[
                               CHOOSE i \in 1..Len(parts) :
                                   /\ SubSeq(parts[i], 2, MemberKeyEnd(parts[i]) - 1) = k
                                   /\ \A j \in (i + 1)..Len(parts) :
                                         SubSeq(parts[j], 2, MemberKeyEnd(parts[j]) - 1) # k])])]
        ELSE IF Len(t) >= 2 /\ CharAt(t, 1) = "[" /\ CharAt(t, Len(t)) = "]"
        THEN IF inner = "" THEN [ok |-> TRUE, val |-> ListVal(<<>>)]
             ELSE IF \E i \in 1..Len(parts) : ~IsJsonScalar(parts[i])
             THEN [ok |-> FALSE, val |-> NullVal]
             ELSE [ok |-> TRUE, val |-> ListVal([i \in 1..Len(parts) |-> JsonScalar(parts[i])])]
        ELSE [ok |-> FALSE, val |-> NullVal]

\* the "arguments" attribute of a function call: None, a string or a dict.
\* meant is the mapping a string was written from (None when it was not)
NoArgs == [type |-> "none", text |-> "", dict |-> EmptyDict, meant |-> NoneV]
TextArgs(text, meant) == [type |-> "str", text |-> text, dict |-> EmptyDict, meant |-> meant]
DictArgs(d) == [type |-> "dict", text |-> "", dict |-> d, meant |-> Some(d)]

\* lines 281-289: the arguments of the direct function call
DirectArgs(args_raw) ==
    IF args_raw.type = "str" /\ args_raw.text # ""
    THEN (IF JsonLoads(args_raw.text).ok THEN JsonLoads(args_raw.text).val
          ELSE DictVal(EmptyDict))
    ELSE IF args_raw.type = "dict" THEN DictVal(args_raw.dict)
    ELSE DictVal(EmptyDict)

\* lines 299-306: the arguments of the function call of a candidate
CandidateArgs(args_raw) ==
    IF args_raw.type = "str"
    THEN (IF JsonLoads(args_raw.text).ok THEN JsonLoads(args_raw.text).val
          ELSE DictVal(EmptyDict))
    ELSE DictVal(args_raw.dict)

\* line 313: content.get("arguments") or {}
ContentArgs(args_raw) ==
    IF args_raw.type = "str" /\ args_raw.text # "" THEN StrVal(args_raw.text)
    ELSE DictVal(args_raw.dict)

\* a function call object: its name (None when it has none) and its arguments
FunctionCall(name, arguments) == [name |-> name, arguments |-> arguments]

\* a candidate: its function_call and tool attributes (None when absent) and
\* its content, which is a dict (of which name and arguments are kept) or not
Candidate(function_call, tool, content) ==
    [function_call |-> function_call, tool |-> tool, content |-> content]
NoContent == [is_dict |-> FALSE, name |-> NoneV, arguments |-> NoArgs]
DictContent(name, arguments) == [is_dict |-> TRUE, name |-> name, arguments |-> arguments]

Truthy(args_raw) ==
    \/ args_raw.type = "str" /\ args_raw.text # ""
    \/ args_raw.type = "dict" /\ DOMAIN args_raw.dict # {}

Extracted(name, args) == Some([name |-> name, args |-> args])

RECURSIVE FromCandidates(_, _)
\* the loop of lines 294-315 from candidate i on
FromCandidates(candidates, i) ==
    IF i > Len(candidates) THEN NoneV
    ELSE With(candidates[i], LAMBDA cand :
         With(IF ~IsNone(cand.function_call) THEN cand.function_call ELSE cand.tool,
              LAMBDA fc :
             IF ~IsNone(fc) THEN Extracted(Val(fc).name, CandidateArgs(Val(fc).arguments))
             ELSE IF /\ cand.content.is_dict
                     /\ \/ (~IsNone(cand.content.name) /\ Val(cand.content.name) # "")
                        \/ Truthy(cand.content.arguments)
             THEN Extracted(cand.content.name, ContentArgs(cand.content.arguments))
             ELSE FromCandidates(candidates, i + 1)))

\* extract_function_call_from_response as a whole: None for (None, None), else
\* the name and the arguments; candidates is None or a list
ExtractedCall(response) ==
    IF ~IsNone(response.function_call)
    THEN Extracted(Val(response.function_call).name,
                   DirectArgs(Val(response.function_call).arguments))
    ELSE IF IsNone(response.candidates) THEN NoneV
    ELSE FromCandidates(Val(response.candidates), 1)

RECURSIVE IntText(_)
\* the decimal digits of a natural number
IntText(n) ==
    IF n < 10 THEN CharAt(Digits, n + 1)
    ELSE IntText(n \div 10) \o CharAt(Digits, (n % 10) + 1)

\* json.dumps of a scalar, and of a mapping given as its items in order
WriteJsonValue(v) ==
    IF v.type = "str" THEN "\"" \o v.val \o "\""
    ELSE IF v.type = "bool" THEN (IF v.val THEN "true" ELSE "false")
    ELSE IntText(v.val)

WriteJson(items) ==
    "{" \o Join([i \in 1..Len(items) |->
                    "\"" \o items[i][1] \o "\": " \o WriteJsonValue(items[i][2])], ", ") \o "}"

MappingOf(items) ==
    [k \in {items[i][1] : i \in 1..Len(items)} |->
        items[CHOOSE i \in 1..Len(items) : items[i][1] = k][2]]

ArgItems ==
    { <<>>,
      << <<"ano", IntVal(2025)>> >>,
      << <<"nome", StrVal("Lima, Ana")>>, <<"email", BoolVal(TRUE)>> >> }

\* strings that json.loads rejects, and one that holds an array
BadJson == {"{nome: Ana}", "{\"ano\": 2025", "[1, 2]"}

ArgsRaw ==
    {NoArgs} \cup {TextArgs(WriteJson(items), Some(MappingOf(items))) : items \in ArgItems}
        \cup {TextArgs(text, NoneV) : text \in BadJson \cup {""}}
        \cup {DictArgs(MappingOf(items)) : items \in ArgItems}

CallNames == {Some("buscar_feriados"), Some("default_api.buscar_feriados"), NoneV}

FunctionCalls == {FunctionCall(name, arguments) : name \in CallNames, arguments \in ArgsRaw}

OneArgs == TextArgs(WriteJson(<< <<"ano", IntVal(2025)>> >>),
                    Some(MappingOf(<< <<"ano", IntVal(2025)>> >>)))

Candidates ==
    {Candidate(NoneV, NoneV, NoContent),
     Candidate(Some(FunctionCall(Some("buscar_feriados"), OneArgs)), NoneV, NoContent),
     Candidate(NoneV, Some(FunctionCall(Some("buscar_dados_professores"), NoArgs)), NoContent),
     Candidate(Some(FunctionCall(Some("buscar_feriados"), TextArgs("{", NoneV))),
               Some(FunctionCall(Some("buscar_dados_professores"), NoArgs)),
               DictContent(Some("print"), NoArgs))}
        \cup {Candidate(NoneV, NoneV, DictContent(name, arguments)) :
                 name \in {Some("buscar_feriados"), NoneV},
                 arguments \in {NoArgs, OneArgs, DictArgs(MappingOf(<<>>)),
                                DictArgs(MappingOf(<< <<"ano", IntVal(2025)>> >>))}}

ExtractInputs ==
    {[function_call |-> Some(fc), candidates |-> candidates] :
         fc \in FunctionCalls,
         candidates \in {NoneV, Some(<<Candidate(NoneV, Some(FunctionCall(NoneV, NoArgs)),
                                                NoContent)>>)}}
        \cup {[function_call |-> NoneV, candidates |-> candidates] :
                 candidates \in {NoneV, Some(<<>>)}
                     \cup {Some(<<c>>) : c \in Candidates}
                     \cup {Some(<<c1, c2>>) : c1 \in Candidates, c2 \in Candidates}}

ExtractFunctionCall == Applies(Returns(ExtractedCall(input)))

InitExtract == InitFn /\ input \in ExtractInputs

SpecExtract == InitExtract /\ [][ExtractFunctionCall]_vars

---------------------------------------------------------------------------
(* difflib, as alocacoes.buscar_professor_em_alocacao uses it (texts        *)
(* shorter than 200 characters, no junk)                                    *)

\* SequenceMatcher.find_longest_match over all of a and b: <<i, j, k>>, the
\* longest common block, the first in a and then the first in b among the
\* longest; k is 0 when there is none
LongestMatch(a, b) ==
    LET blocks == {<<i, j, k>> \in (1..Len(a)) \X (1..Len(b)) \X (1..Len(a)) :
                      /\ i + k - 1 <= Len(a) /\ j + k - 1 <= Len(b)
                      /\ SubSeq(a, i, i + k - 1) = SubSeq(b, j, j + k - 1)}
    IN  IF blocks = {} THEN <<1, 1, 0>>
        ELSE CHOOSE m \in blocks :
                \A x \in blocks :
                    \/ x[3] < m[3]
                    \/ x[3] = m[3] /\ m[1] < x[1]
                    \/ x[3] = m[3] /\ m[1] = x[1] /\ m[2] <= x[2]

RECURSIVE MatchingCount(_, _)
\* the sum of the sizes of SequenceMatcher(None, a, b).get_matching_blocks()
MatchingCount(a, b) ==
    IF a = "" \/ b = "" THEN 0
    ELSE LET m == LongestMatch(a, b)
         IN  IF m[3] = 0 THEN 0
             ELSE m[3] + MatchingCount(SubSeq(a, 1, m[1] - 1), SubSeq(b, 1, m[2] - 1))
                       + MatchingCount(SubSeq(a, m[1] + m[3], Len(a)),
                                       SubSeq(b, m[2] + m[3], Len(b)))

\* SequenceMatcher(None, a, b).ratio() compared with num / den
RatioAtLeast(a, b, num, den) ==
    IF Len(a) + Len(b) = 0 THEN TRUE
    ELSE 2 * MatchingCount(a, b) * den >= num * (Len(a) + Len(b))

RatioAbove(a, b, num, den) ==
    IF Len(a) + Len(b) = 0 THEN num < den
    ELSE 2 * MatchingCount(a, b) * den > num * (Len(a) + Len(b))

\* difflib.get_close_matches(word, possibilities, n=1, cutoff=num/den) is not empty
HasCloseMatch(word, possibilities, num, den) ==
    \E i \in 1..Len(possibilities) : RatioAtLeast(possibilities[i], word, num, den)

---------------------------------------------------------------------------
(* Search in the allocation rows: alocacoes.buscar_professor_em_alocacao    *)

days_pt == <<"segunda", "terca", "quarta", "quinta", "sexta", "sabado", "domingo">>

\* weekday_map, in its order: <<token, day>>; the two keys written with an
\* accent are left out, a normalized text holds no accent
weekday_map ==
    << <<"segunda", "segunda">>, <<"segunda-feira", "segunda">>, <<"terca", "terca">>,
       <<"terca-feira", "terca">>, <<"quarta", "quarta">>, <<"quarta-feira", "quarta">>,
       <<"quinta", "quinta">>, <<"quinta-feira", "quinta">>, <<"sexta", "sexta">>,
       <<"sexta-feira", "sexta">>, <<"sabado", "sabado">>, <<"domingo", "domingo">> >>

RECURSIVE DaysFound(_, _)
\* lines 203-206: the days of the tokens of weekday_map that norm contains
DaysFound(norm, i) ==
    IF i > Len(weekday_map) THEN <<>>
    ELSE (IF IsSubstr(weekday_map[i][1], norm) THEN <<weekday_map[i][2]>> ELSE <<>>)
             \o DaysFound(norm, i + 1)

\* re.search(r"(\d{1,2}[:hH]?\d{0,2})", horario): group 1, or None
TimeToken(horario) ==
    LET IsD(k) == k <= Len(horario) /\ CharIn(CharAt(horario, k), Digits)
        at == {i \in 1..Len(horario) : IsD(i)}
    IN  IF at = {} THEN NoneV
        ELSE LET i == MinOf(at)
                 j == IF IsD(i + 1) THEN i + 1 ELSE i
                 s == IF j + 1 <= Len(horario) /\ CharAt(horario, j + 1) \in {":", "h", "H"}
                      THEN j + 1 ELSE j
                 e == IF IsD(s + 1) THEN (IF IsD(s + 2) THEN s + 2 ELSE s + 1) ELSE s
             IN  Some(SubSeq(horario, i, e))

\* f"{n:02d}"
Pad2(n) == IF n < 10 THEN "0" \o IntText(n) ELSE IntText(n)

\* lines 211-222: the token as "HH:MM"
TimeOf(token) ==
    LET seps == {i \in 1..Len(token) : CharAt(token, i) \in {":", "h", "H"}}
    IN  IF seps = {} THEN Pad2(ToInt(token)) \o ":00"
        ELSE LET i == MinOf(seps)
                 mm == SubSeq(token, i + 1, Len(token))
             IN  Pad2(ToInt(SubSeq(token, 1, i - 1))) \o ":"
                     \o Pad2(IF mm = "" THEN 0 ELSE ToInt(mm))

\* _parse_horario_param; weekday is datetime.date.today().weekday()
_parse_horario_param(horario, weekday) ==
    IF IsNone(horario) \/ Val(horario) = ""
    THEN [week |-> FALSE, days |-> <<>>, time |-> NoneV]
    ELSE LET norm == _normalize_token(Val(horario))
             found == DaysFound(norm, 1)
             token == TimeToken(Val(horario))
         IN  [week |-> IsSubstr("semana", norm),
              days |-> IF found # <<>> THEN found
                       ELSE IF IsSubstr("amanha", norm)
                       THEN <<days_pt[((weekday + 1) % 7) + 1]>>
                       ELSE IF IsSubstr("hoje", norm) THEN <<days_pt[weekday + 1]>>
                       ELSE <<>>,
              time |-> IF IsNone(token) THEN NoneV ELSE Some(TimeOf(Val(token)))]

\* lines 129-146: the time filter (hh is a number, so int(hh) does not raise)
TimeMatches(row, time_filter) ==
    LET hh == SplitAt(time_filter, ":")[1]
        texto == _normalize_token(row._row_text)
        horario_field == _normalize_token(row.Horario)
    IN  \/ IsSubstr(time_filter, horario_field)
        \/ IsSubstr(time_filter, texto)
        \/ HasWord(IntText(ToInt(hh)), texto)
        \/ IsSubstr(hh \o "h", texto)

_row_matches_schedule(row, horario_parsed) ==
    LET texto == _normalize_token(row._row_text)
        dia_field == _normalize_token(row.Dia)
        days_filter == horario_parsed.days
    IN  /\ (~horario_parsed.week /\ days_filter # <<>>)
               => \E i \in 1..Len(days_filter) :
                      IsSubstr(days_filter[i], dia_field) \/ IsSubstr(days_filter[i], texto)
        /\ (~horario_parsed.week /\ ~IsNone(horario_parsed.time))
               => TimeMatches(row, Val(horario_parsed.time))

exclude_tokens == {"de", "da", "do", "dos", "das", "prof", "profa", "dr", "dra", "prof."}

\* line 351
NameTokens(nome_norm) ==
    SelectSeq(SplitWords(nome_norm), LAMBDA t : Len(t) > 2 /\ t \notin exclude_tokens)

NoMatch == [match_type |-> "", score |-> 0]
Match(match_type, score) == [match_type |-> match_type, score |-> score]

\* a scoring that tests tokens_all before substring
RowMatch_tokensFirst(nome_norm, row) ==
    LET texto == _normalize_token(row._row_text)
        tokens == NameTokens(nome_norm)
    IN  IF tokens # <<>> /\ \A i \in 1..Len(tokens) : IsSubstr(tokens[i], texto)
        THEN Match("tokens_all", 100)
        ELSE IF IsSubstr(nome_norm, texto) THEN Match("substring", 80)
        ELSE NoMatch

\* a scoring that tests last_name before tokens_all
RowMatch_lastNameFirst(nome_norm, row) ==
    LET texto == _normalize_token(row._row_text)
        tokens == NameTokens(nome_norm)
    IN  IF IsSubstr(nome_norm, texto) THEN Match("substring", 80)
        ELSE IF Len(tokens) = 1 /\ IsSubstr(tokens[1], texto) THEN Match("last_name", 50)
        ELSE IF tokens # <<>> /\ \A i \in 1..Len(tokens) : IsSubstr(tokens[i], texto)
        THEN Match("tokens_all", 100)
        ELSE NoMatch

\* lines 368-400: how a row matches the name, and its score; re.findall(r"\w+")
\* of a normalized text gives its words
RowMatch(nome_norm, row) ==
    LET texto == _normalize_token(row._row_text)
        tokens == NameTokens(nome_norm)
        text_words == SplitWords(texto)
        InWords(token) == \E i \in 1..Len(text_words) : text_words[i] = token
    IN  IF IsSubstr(nome_norm, texto) THEN Match("substring", 80)
        ELSE IF tokens # <<>> /\ \A i \in 1..Len(tokens) : IsSubstr(tokens[i], texto)
        THEN Match("tokens_all", 100)
        ELSE IF tokens # <<>>
                  /\ \A i \in 1..Len(tokens) :
                         InWords(tokens[i]) \/ HasCloseMatch(tokens[i], text_words, 7, 10)
        THEN Match("tokens_fuzzy", 90)
        ELSE IF Len(tokens) = 1 /\ IsSubstr(tokens[1], texto) THEN Match("last_name", 50)
        ELSE IF RatioAbove(nome_norm, texto, 13, 20)
        THEN Match("fuzzy",
                   75 + (50 * MatchingCount(nome_norm, texto)) \div (Len(nome_norm) + Len(texto)))
        ELSE NoMatch

\* the search stops collecting at this many rows (line 461)
MaxMatches == 6

\* the names, schedule texts and rows searched with
SearchNames == {"Ana Lima", "Lima, Ana", "Anna Lyma", "", "Dr. Jo X", "Prof. Zeca"}
SearchHorarios == {NoneV, Some("segunda"), Some("semana"), Some("8h"), Some("hoje"),
                   Some("terca-feira 10:30")}
SearchWeekdays == {0, 6}

SearchRows ==
    << Row("SALA 1 | Algoritmos | Ana Lima", "SEG", "AB"),
       Row("SALA 2 | Redes | Rui Lima", "Terca-feira", "CD"),
       Row("Calculo | Anna Lima", "Segunda", "08:00-10:00"),
       Row("Dr Joe", "", ""),
       Row("Logica | Lima Ana | segunda", "", "10h"),
       Row("Fisica | Ana Lima | 8h", "", ""),
       Row("Etica | Ana Lima | sala 10", "Terca", "--"),
       Row("Banco de Dados | Ana Lyma | sala 8", "Domingo", "8") >>

RowSet == {SearchRows[i] : i \in 1..Len(SearchRows)}

\* RowMatch and _row_matches_schedule on the names, schedule texts and rows used
RowMatches == [nome \in SearchNames |-> [row \in RowSet |-> RowMatch(_normalize_token(nome), row)]]

ParsedHorario ==
    [horario \in SearchHorarios |-> [weekday \in SearchWeekdays |->
        _parse_horario_param(horario, weekday)]]

SchedulePasses ==
    [horario \in SearchHorarios |-> [weekday \in SearchWeekdays |-> [row \in RowSet |->
        _row_matches_schedule(row, ParsedHorario[horario][weekday])]]]

RECURSIVE ScanRows(_, _, _, _, _)
\* lines 363-462: the loop over the rows from position i on; scored holds
\* <<score, row>> of the rows matched so far
ScanRows(rows, i, matches, passes, scored) ==
    IF i > Len(rows) \/ Len(scored) >= MaxMatches THEN scored
    ELSE IF ~passes[rows[i]] \/ matches[rows[i]].match_type = ""
    THEN ScanRows(rows, i + 1, matches, passes, scored)
    ELSE ScanRows(rows, i + 1, matches, passes,
                  Append(scored, <<matches[rows[i]].score, rows[i]>>))

RECURSIVE SortByScore(_)
\* scored_matches.sort(key=lambda x: x[0], reverse=True): stable, highest first
SortByScore(scored) ==
    IF scored = <<>> THEN <<>>
    ELSE LET best == MinOf({i \in 1..Len(scored) :
                               \A j \in 1..Len(scored) : scored[j][1] <= scored[i][1]})
         IN  <<scored[best]>>
                 \o SortByScore(SubSeq(scored, 1, best - 1)
                                    \o SubSeq(scored, best + 1, Len(scored)))

\* _format_row_string of a row with the keys _row_text, Dia and Horario
_format_row_string(row) ==
    Strip(Join((IF row.Dia # "" THEN <<"Dia: " \o row.Dia>> ELSE <<>>)
                   \o (IF row.Horario # "" THEN <<"Horario: " \o row.Horario>> ELSE <<>>)
                   \o <<row._row_text>>, "\n"))

\* the weekday name in text, or None
DayIn(text) ==
    LET at == {i \in 1..Len(days_pt) : IsSubstr(days_pt[i], text)}
    IN  IF at = {} THEN NoneV ELSE Some(days_pt[MinOf(at)])

\* _extract_day_from_row of such a row, whose keys come in the order Dia,
\* Horario: a weekday, another text, or None
_extract_day_from_row(row) ==
    LET dia == _normalize_token(row.Dia)
        horario == _normalize_token(row.Horario)
        texto == _normalize_token(row._row_text)
    IN  IF row.Dia # "" /\ ~IsNone(DayIn(dia)) THEN DayIn(dia)
        ELSE IF row.Horario # "" /\ ~IsNone(DayIn(horario)) THEN DayIn(horario)
        ELSE IF ~IsNone(DayIn(texto)) THEN DayIn(texto)
        ELSE IF row.Horario # "" THEN Some(horario)
        ELSE IF row.Dia # "" THEN Some(dia)
        ELSE NoneV

RECURSIVE GroupRows(_, _, _)
\* lines 477-484: grouped, a dict from day to rows
GroupRows(matched_rows, i, grouped) ==
    IF i > Len(matched_rows) THEN grouped
    ELSE LET day == _extract_day_from_row(matched_rows[i])
             key == IF ~IsNone(day) /\ Val(day) # "" THEN Val(day) ELSE "sem_data"
         IN  GroupRows(matched_rows, i + 1,
                       DictSet(grouped, key,
                               Append(IF key \in DOMAIN grouped THEN grouped[key] ELSE <<>>,
                                      matched_rows[i])))

\* lines 485-491: the days of days_order and sem_data that have rows
WeekStruct(nome_professor, grouped) ==
    [professor |-> nome_professor,
     week |-> [d \in {k \in DOMAIN grouped :
                        /\ grouped[k] # <<>>
                        /\ k = "sem_data" \/ \E i \in 1..Len(days_pt) : days_pt[i] = k}
                  |-> grouped[d]]]

AccessError == "Nao consegui acessar o documento de alocacao no momento. "

\* buscar_professor_em_alocacao, cache being what carregar_alocacoes returns;
\* mode is "rows" for return_rows, "week" for group_by_day, else "lines"
buscar_professor_em_alocacao(cache, nome_professor, horario, mode, weekday) ==
    IF ~IsNone(cache.error) THEN <<AccessError \o Val(cache.error)>>
    ELSE IF cache.rows = <<>> THEN <<>>
    ELSE LET scored == ScanRows(cache.rows, 1, RowMatches[nome_professor],
                                SchedulePasses[horario][weekday], <<>>)
             matched_rows == [i \in 1..Len(scored) |-> scored[i][2]]
         IN  IF mode = "rows" THEN matched_rows
             ELSE IF mode = "week"
             THEN WeekStruct(nome_professor,
                             GroupRows(matched_rows, 1,
                                       [d \in {days_pt[i] : i \in 1..Len(days_pt)}
                                               \cup {"sem_data"} |-> <<>>]))
             ELSE LET sorted == SortByScore(scored)
                  IN  [i \in 1..Len(sorted) |-> _format_row_string(sorted[i][2])]

\* the cached row lists: up to MaxRows rows of SearchRows from any row on, around
MaxRows == 8

RowLists ==
    {[i \in 1..n |-> SearchRows[((k + i - 2) % Len(SearchRows)) + 1]] :
        k \in 1..Len(SearchRows), n \in 0..MaxRows}

SearchInputs ==
    {[cache |-> Cache(Some(0), rows, Some(ALOCACAO_DOC_URL), NoneV), nome |-> nome,
      horario |-> horario, mode |-> mode, weekday |-> weekday] :
        rows \in RowLists, nome \in SearchNames, horario \in SearchHorarios,
        mode \in {"lines", "rows", "week"}, weekday \in SearchWeekdays}
        \cup {[cache |-> Cache(Some(0), <<>>, Some(ALOCACAO_DOC_URL), Some("timeout")),
               nome |-> "Ana Lima", horario |-> NoneV, mode |-> mode, weekday |-> 0] :
                 mode \in {"lines", "rows", "week"}}

BuscarProfessor ==
    Applies(Returns(buscar_professor_em_alocacao(input.cache, input.nome, input.horario,
                                                 input.mode, input.weekday)))

InitBuscar == InitFn /\ input \in SearchInputs

SpecBuscar == InitBuscar /\ [][BuscarProfessor]_vars

---------------------------------------------------------------------------
(* utils._normalize_token on any text: a text is kept as its code points    *)

\* chr and ord for ASCII
Punctuation == " !\"#$%&'()*+,-./"

Chr(code) ==
    IF code \in 65..90 THEN CharAt(UpperLetters, code - 64)
    ELSE IF code \in 97..122 THEN CharAt(LowerLetters, code - 96)
    ELSE IF code \in 48..57 THEN CharAt(Digits, code - 47)
    ELSE IF code \in 32..47 THEN CharAt(Punctuation, code - 31)
    ELSE IF code = 9 THEN "\t"
    ELSE IF code = 10 THEN "\n"
    ELSE "_"

Ord(c) == CHOOSE code \in {9, 10, 95} \cup (32..57) \cup (65..90) \cup (97..122) : Chr(code) = c

RECURSIVE FlatMap(_, _)
\* the texts Each gives for the code points of text, one after the other
FlatMap(Each(_), text) ==
    IF text = <<>> THEN <<>> ELSE Each(Head(text)) \o FlatMap(Each, Tail(text))

\* unicodedata.normalize("NFD", chr(code)) for the code points used: a letter
\* with an acute accent, a tilde or a cedilla is its letter and the combining
\* mark; the sharp s (223) and the long s (383) have no decomposition
NFD(code) ==
    IF code = 225 THEN <<97, 769>>
    ELSE IF code = 193 THEN <<65, 769>>
    ELSE IF code = 227 THEN <<97, 771>>
    ELSE IF code = 195 THEN <<65, 771>>
    ELSE IF code = 231 THEN <<99, 807>>
    ELSE IF code = 199 THEN <<67, 807>>
    ELSE IF code = 233 THEN <<101, 769>>
    ELSE IF code = 201 THEN <<69, 769>>
    ELSE <<code>>

\* chr(code).casefold() for the code points used
CasefoldCode(code) ==
    IF code \in 65..90 THEN <<code + 32>>
    ELSE IF code \in {193, 195, 199, 201} THEN <<code + 32>>
    ELSE IF code = 223 THEN <<115, 115>>
    ELSE IF code = 383 THEN <<115>>
    ELSE <<code>>

\* .encode("ascii", "ignore").decode("ascii")
AsciiIgnore(text) ==
    FlatMap(LAMBDA code : IF code < 128 THEN <<code>> ELSE <<>>, text)

RECURSIVE StrOf(_)
\* the str of ASCII code points, and the code points of a str
StrOf(text) == IF text = <<>> THEN "" ELSE Chr(Head(text)) \o StrOf(Tail(text))

CodesOf(str) == [i \in 1..Len(str) |-> Ord(CharAt(str, i))]

\* _normalize_token(value), value given as its code points: lines 13-14, then
\* lines 15-17 on the ASCII text that is left
NormalizeToken(value) ==
    IF value = <<>> THEN ""
    ELSE _normalize_token(StrOf(AsciiIgnore(FlatMap(NFD, value))))

\* two texts differ only in case or accents: they are the same once casefolded
\* and with the combining marks of their decomposition removed
Unaccented(text) ==
    FlatMap(LAMBDA code : IF code \in 768..879 THEN <<>> ELSE <<code>>, FlatMap(NFD, text))

SameButCaseOrAccents(s, t) ==
    Unaccented(FlatMap(CasefoldCode, s)) = Unaccented(FlatMap(CasefoldCode, t))

\* the texts normalized: every text of up to MaxTextLen of these code points
\* (a A a-acute A-acute s S long-s sharp-s c-cedilla space hyphen underscore),
\* and some longer ones
MaxTextLen == 2
TextCodes == {97, 65, 225, 193, 115, 83, 383, 223, 231, 32, 45, 95}

LongTexts ==
    {<<32, 32, 65, 45, 95, 225, 32, 32>>, <<97, 32, 45, 32, 32, 115, 9>>,
     <<83, 227, 111, 32, 32, 74, 111, 115, 233>>, <<115, 97, 111, 32, 106, 111, 115, 101>>,
     <<83, 116, 114, 97, 117, 223>>, <<83, 84, 82, 65, 85, 83, 83>>}

ShortTexts == UNION {[1..n -> TextCodes] : n \in 0..MaxTextLen}

NormalizeInputs ==
    {[s |-> s, t |-> t] : s \in ShortTexts, t \in ShortTexts}
        \cup {[s |-> s, t |-> t] : s \in LongTexts, t \in LongTexts}

\* s and t are normalized, and what s gave is normalized again
NormalizeTexts ==
    Applies(Returns([s |-> NormalizeToken(input.s), t |-> NormalizeToken(input.t),
                     again |-> NormalizeToken(CodesOf(NormalizeToken(input.s)))]))

InitNormalize == InitFn /\ input \in NormalizeInputs

SpecNormalize == InitNormalize /\ [][NormalizeTexts]_vars

---------------------------------------------------------------------------
(* carregar_alocacoes called once, for every way the requests of the        *)
(* candidates can go                                                         *)

\* what the requests of one pass over the candidates of link do; a candidate
\* after the accepted one is not requested, so what it would do is fixed
GetSeqsOf(link) ==
    {gets \in [1..Len(CandidatesOf[link]) -> GetOutcomes] :
        \A i \in DOMAIN gets :
            (\E j \in 1..(i - 1) : Accepted(gets[j])) => gets[i] = GetAuth}

LoadInputs ==
    {[doc_link |-> "", gets |-> <<>>]}
        \cup {[doc_link |-> ALOCACAO_DOC_URL, gets |-> gets] : gets \in GetSeqsOf(ALOCACAO_DOC_URL)}
        \cup {[doc_link |-> PlainLink, gets |-> gets] : gets \in GetSeqsOf(PlainLink)}

\* one call of carregar_alocacoes in a process where config.ALOCACAO_DOC_URL is
\* input.doc_link
CarregarAlocacoes ==
    /\ IsNone(output)
    /\ With(carregar_alocacoes(ALOCACAO_CACHE, input.doc_link, input.gets, now), LAMBDA r :
           /\ ALOCACAO_CACHE' = r.cache
           /\ output' = Some(Returns(r)))
    /\ UNCHANGED <<chatVars, input, now, DOCENTES_INDEX_CACHE, DOCENTES_INDEX_TIMESTAMP,
                   threads, origin, lastLoad>>

InitCarregar == InitFn /\ input \in LoadInputs

SpecCarregar == InitCarregar /\ [][CarregarAlocacoes]_vars

---------------------------------------------------------------------------
(* The scoring of one row by buscar_professor_em_alocacao (lines 368-400),  *)
(* for a name and a row that passed the schedule filter                      *)

ScoreNames ==
    SearchNames \cup {"Ana", "Lima", "Ann Limo", "Anna", "Rui", "Redes Ana", "Dr. Jo Y",
                      "Dr. Jo Exy", "Prof. Lima", "Dra. Anna"}

ScoreInputs == [nome : ScoreNames, row : RowSet]

ScoreRow == Applies(Returns(RowMatch(_normalize_token(input.nome), input.row)))

InitScore == InitFn /\ input \in ScoreInputs

SpecScore == InitScore /\ [][ScoreRow]_vars

---------------------------------------------------------------------------
(* listar_docentes called by one caller at a time, over the days            *)

MaxDirNow == 1442

AnaUrl == "https://www.quixada.ufc.br/docente/ana-lima/"
RuiUrl == "https://www.quixada.ufc.br/docente/rui-lima/"

\* the directory pages a fetch can return
DirPages ==
    {PageRaises, Page(<<>>),
     Page(<< <<"Ana Lima", AnaUrl>> >>),
     Page(<< <<"Rui de Lima", RuiUrl>>, <<"Ana Lima", AnaUrl>> >>),
     Page(<< <<"Ana Lima", AnaUrl>>, <<"Rui de Lima", RuiUrl>> >>),
     Page(<< <<"Ana Lima", AnaUrl>>, <<"Ana Lima", RuiUrl>> >>),
     Page(<< <<"Ze M. Sa", RuiUrl>> >>)}

\* a listar_docentes that stamps the time of a scrape that failed
listar_docentes_stampsFailure(index, timestamp, page, clock) ==
    IF DOMAIN index # {} /\ ~_cache_expired(timestamp, DOCENTES_CACHE_TTL, clock)
    THEN [index |-> index, timestamp |-> timestamp, ret |-> index, fetched |-> FALSE]
    ELSE IF page.kind = "raise"
    THEN [index |-> index, timestamp |-> Some(clock), ret |-> index, fetched |-> TRUE]
    ELSE With(BuildIndex(page.headings, 1, EmptyDict), LAMBDA built :
             [index |-> built, timestamp |-> Some(clock), ret |-> built, fetched |-> TRUE])

\* listar_docentes on the index and timestamp it finds at time clock, page being
\* what fetch_html does when it is called: the index and timestamp it leaves,
\* what it returns, and whether it called fetch_html
listar_docentes(index, timestamp, page, clock) ==
    IF DOMAIN index # {} /\ ~_cache_expired(timestamp, DOCENTES_CACHE_TTL, clock)
    THEN [index |-> index, timestamp |-> timestamp, ret |-> index, fetched |-> FALSE]
    ELSE IF page.kind = "raise"
    THEN [index |-> index, timestamp |-> timestamp, ret |-> index, fetched |-> TRUE]
    ELSE With(BuildIndex(page.headings, 1, EmptyDict), LAMBDA built :
             [index |-> built, timestamp |-> Some(clock), ret |-> built, fetched |-> TRUE])

\* one call of listar_docentes; input keeps what the call found and what the
\* fetch did, output what the call returned
ListarDocentes(page) ==
    /\ With(listar_docentes(DOCENTES_INDEX_CACHE, DOCENTES_INDEX_TIMESTAMP, page, now), LAMBDA r :
           /\ DOCENTES_INDEX_CACHE' = r.index
           /\ DOCENTES_INDEX_TIMESTAMP' = r.timestamp
           /\ input' = Some([page |-> page, at |-> now, fetched |-> r.fetched,
                             index |-> DOCENTES_INDEX_CACHE,
                             timestamp |-> DOCENTES_INDEX_TIMESTAMP])
           /\ output' = Some(Returns(r.ret)))
    /\ UNCHANGED <<chatVars, now, ALOCACAO_CACHE, threads, origin, lastLoad>>

\* the clock advances by d minutes
DirTick(d) ==
    /\ now + d <= MaxDirNow
    /\ now' = now + d
    /\ UNCHANGED <<chatVars, fnVars, ALOCACAO_CACHE, DOCENTES_INDEX_CACHE,
                   DOCENTES_INDEX_TIMESTAMP, threads, origin, lastLoad>>

NextDirectory ==
    \/ \E page \in DirPages : ListarDocentes(page)
    \/ \E d \in {DOCENTES_CACHE_TTL, DOCENTES_CACHE_TTL + 1} : DirTick(d)

SpecDirectory == InitCache /\ [][NextDirectory]_vars

---------------------------------------------------------------------------
(* Properties *)

\* C1: whatever create_session, append_message, set_messages and
\* delete_session calls were made, a log that get_messages returns (not None)
\* is non-empty and its first record has role "system"
C1_LogStartsWithSystem ==
    \A w \in Workers, s \in Sessions :
        LET got == get_messages(Ensured(Store, w), w, s)
        IN  ~IsNone(got) => Len(Val(got)) > 0 /\ Val(got)[1].role = "system"

\* C2: a message for a session whose stored log is None is answered 404
\* "Sessao invalida" and nothing else is done: no engine conversation is
\* created or called, nothing is appended, no state is set (a step that leaves
\* reachable alone is a call, and last' describes it)
C2_InvalidSessionRejected ==
    [][(reachable' = reachable /\ last'.kind = "chat" /\ IsNone(last'.before)) =>
          LET w == last'.w
              s == last'.s
          IN  /\ last'.result = HTTPException(404, InvalidDetail)
              /\ last'.ops = <<>>
              /\ chats' = chats /\ sent' = sent /\ sessState' = sessState
              /\ IsNone(get_messages(Store', w, s))
              /\ get_state(Store', w, s) = get_state(Ensured(Store, w), w, s)]_vars

C2_Witness ==
    /\ last.kind = "chat" /\ IsNone(last.before)
    /\ last.result.status = 404
    /\ \E s \in Sessions : s # last.s /\ ~IsNone(get_messages(Store, last.w, s))

\* what a call did, read from the record of its operations
IsSend(o) == o.op = "send"
IsAssistantAppend(o) == o.op = "append" /\ o.role = "assistant"
UserAppendPos(ops) == {i \in 1..Len(ops) : ops[i].op = "append" /\ ops[i].role = "user"}
AfterUserAppend(ops) ==
    IF UserAppendPos(ops) = {} THEN <<>>
    ELSE SubSeq(ops, MinOf(UserAppendPos(ops)) + 1, Len(ops))
ToolPos(ops) == {i \in 1..Len(ops) : ops[i].op = "tool"}
\* the sends of the incoming message itself
MessageSends(call) ==
    SelectSeq(AfterUserAppend(call.ops), LAMBDA o : IsSend(o) /\ o.text = call.message)
LogNow(call) == get_messages(Store, call.w, call.s)

\* the call forwarded the message to the engine and called no tool
NoToolPath == last.kind = "chat" /\ UserAppendPos(last.ops) # {} /\ ToolPos(last.ops) = {}

\* C3: on the no-tool path the message is sent once, and a second time exactly
\* when the first response renders empty, never a third time; when the text is
\* still empty the call ends with an error and appends no assistant message,
\* otherwise it returns the non-empty text and appends it
C3_AtMostOneRetry ==
    NoToolPath =>
        LET tail == AfterUserAppend(last.ops)
            sends == SelectSeq(tail, IsSend)
            t1 == IF last.in.o1.ok THEN _render_response_text(last.in.o1.resp) ELSE ""
            t2 == IF Len(sends) = 2 /\ last.in.o2.ok
                  THEN _render_response_text(last.in.o2.resp) ELSE ""
            text == IF t1 # "" THEN t1 ELSE t2
        IN  /\ Len(sends) \in {1, 2}
            /\ \A i \in 1..Len(sends) : sends[i].text = last.message
            /\ Len(sends) = 2 <=> (last.in.o1.ok /\ t1 = "")
            /\ (last.in.o1.ok /\ text = "") =>
                  /\ last.result = HTTPException(500, ProcessDetail)
                  /\ SelectSeq(tail, IsAssistantAppend) = <<>>
                  /\ LogNow(last) = Some(Append(Val(last.before), Msg("user", last.message)))
            /\ (last.in.o1.ok /\ text # "") =>
                  /\ last.result = Reply(200, text, "")
                  /\ SelectSeq(tail, IsAssistantAppend) = <<Op("append", "assistant", text, TRUE)>>
                  /\ LogNow(last) = Some(Val(last.before) \o
                                         <<Msg("user", last.message), Msg("assistant", text)>>)

C3_Witness ==
    /\ NoToolPath
    /\ Len(MessageSends(last)) = 2
    /\ last.result.status = 500
    /\ ~last.in.o2.ok

\* the failure messages of the engine calls the claim lists: creating the
\* conversation, sending the message, the retry
EngineFailures(call) ==
    LET sends == MessageSends(call)
    IN  (IF \E i \in 1..Len(call.ops) : call.ops[i].op = "create" /\ ~call.ops[i].ok
         THEN {call.in.createOut.err} ELSE {})
        \cup (IF Len(sends) >= 1 /\ ~sends[1].ok THEN {call.in.o1.err} ELSE {})
        \cup (IF Len(sends) >= 2 /\ ~sends[2].ok THEN {call.in.o2.err} ELSE {})

\* C4: a call of start_chat or handle_chat_message in which creating the
\* conversation, sending the message or the retry failed ends with 503 when
\* the failure message is quota-like and with 500 otherwise, and its text is
\* one of the fixed messages and holds no part of the failure message
C4_EngineFailureSignal ==
    last.kind \in {"start_chat", "chat"} =>
        \A msg \in EngineFailures(last) :
            /\ last.result.status = IF IsQuotaLike(msg) THEN 503 ELSE 500
            /\ last.result.text \in {QuotaDetail, StartDetail, ProcessDetail, RehydrateDetail}
            /\ ~IsSubstr(msg, last.result.text)

\* the conversation of a worker without a handle could not be created because
\* of a quota-like failure, and the call ended as an internal error
C4_Witness ==
    /\ last.kind = "chat" /\ ~last.cached
    /\ ~last.in.createOut.ok /\ IsQuotaLike(last.in.createOut.err)
    /\ EngineFailures(last) = {last.in.createOut.err}
    /\ last.result = HTTPException(500, RehydrateDetail)

\* a tool was resolved and its call succeeded / raised
ToolSucceeded == last.kind = "chat" /\ \E i \in ToolPos(last.ops) : last.ops[i].ok
ToolRaised == last.kind = "chat" /\ \E i \in ToolPos(last.ops) : ~last.ops[i].ok

C6_ToolFailureReported ==
    ToolRaised =>
            /\ ToolPos(last.ops) = {Len(last.ops)}
            /\ last.result = Reply(200, "Erro ao executar ferramenta: " \o last.in.toolOut.out, "")
            /\ \A j \in 1..Len(last.ops) :
                  last.ops[j].op = "append" => last.ops[j].role = "user"
            /\ LogNow(last) = Some(Append(Val(last.before), Msg("user", last.message)))
            /\ \A j \in 1..Len(sent[last.w][last.s]) :
                  ~IsSubstr(last.in.toolOut.out, sent[last.w][last.s][j])

C6_Witness ==
    /\ ToolRaised
    /\ Len(MessageSends(last)) = 1
    /\ last.result.status = 200

UserMessages(log) == SelectSeq(log, LAMBDA m : m.role = "user")
LogBefore(call) == IF IsNone(call.before) THEN <<>> ELSE Val(call.before)

\* C8: without a cached handle ensure_chat_obj creates one conversation and
\* sends it the stored user messages, each once, in log order, and nothing
\* else, whether or not some of these sends raise, then caches the handle;
\* with a cached handle it makes no engine call
C8_ReplayUserMessages ==
    last.kind = "ensure_chat_obj" =>
        LET w == last.w
            s == last.s
            users == UserMessages(LogBefore(last))
            sends == SelectSeq(last.ops, IsSend)
        IN  IF last.cached
            THEN last.ops = <<>> /\ last.path = "returned" /\ s \in chats[w]
            ELSE /\ Len(last.ops) >= 1 /\ last.ops[1].op = "create"
                 /\ \A i \in 2..Len(last.ops) : IsSend(last.ops[i])
                 /\ last.ops[1].ok =>
                       /\ Len(sends) = Len(users)
                       /\ \A i \in 1..Len(sends) :
                             sends[i].text = users[i].content
                       /\ sent[w][s] = [i \in 1..Len(users) |-> users[i].content]
                       /\ last.path = "returned"
                       /\ s \in chats[w]

C8_Witness ==
    /\ last.kind = "ensure_chat_obj" /\ ~last.cached
    /\ LET users == UserMessages(LogBefore(last))
           sends == SelectSeq(last.ops, IsSend)
       IN  /\ Len(users) = 2 /\ users[1] # users[2]
           /\ Len(LogBefore(last)) > 2
           /\ Len(sends) = 2 /\ ~sends[1].ok /\ sends[2].ok
    /\ last.s \in chats[last.w]

RECURSIVE IsSubsequence(_, _)
\* the elements of a occur in b, in the order of a
IsSubsequence(a, b) ==
    IF a = <<>> THEN TRUE
    ELSE IF b = <<>> THEN FALSE
    ELSE IF Head(a) = Head(b) THEN IsSubsequence(Tail(a), Tail(b))
    ELSE IsSubsequence(a, Tail(b))

\* what the handle last.w holds for last.s had been sent when the call
\* started to forward the incoming message
ReceivedBefore(call) ==
    LET handle == sent[call.w][call.s]
        n == Len(SelectSeq(AfterUserAppend(call.ops), IsSend))
    IN  SubSeq(handle, 1, Len(handle) - n)

\* C9: when a worker that uses the shared store sends the incoming user
\* message to the engine, the handle it uses has been sent every user message
\* stored earlier in the log of the session, in log order
C9_HandleHasReceivedLog ==
    (last.kind = "chat" /\ connected[last.w] /\ MessageSends(last) # <<>>) =>
        IsSubsequence([i \in 1..Len(UserMessages(LogBefore(last))) |->
                          UserMessages(LogBefore(last))[i].content],
                      ReceivedBefore(last))

\* a worker with a cached handle answers a message although another worker
\* stored and sent an earlier user message its handle was never sent
C9_Witness ==
    /\ last.kind = "chat" /\ last.cached /\ \A w \in Workers : connected[w]
    /\ MessageSends(last) # <<>> /\ last.result.status = 200
    /\ \E w \in Workers \ {last.w} :
       \E i \in 1..Len(UserMessages(LogBefore(last))) :
          LET m == UserMessages(LogBefore(last))[i].content
          IN  /\ \E j \in 1..Len(sent[w][last.s]) : sent[w][last.s][j] = m
              /\ \A j \in 1..Len(ReceivedBefore(last)) : ReceivedBefore(last)[j] # m

\* what the durable store is to hold once a worker connected: the remote
\* value of every key that existed, the in-memory value of every other key
MigrationOf(remote, mem) ==
    [k \in DOMAIN remote \cup DOMAIN mem |-> IF k \in DOMAIN remote THEN remote[k] ELSE mem[k]]

\* the last call was a store call that made the worker's first connection
Connecting == last.path = "connected"
HistoryWriters == {"create_session", "set_messages", "append_message", "delete_session"}

C11_OneFetchPerTtl ==
    (lastLoad.t # "" /\ ~IsNone(lastLoad.before.timestamp)) =>
        IF lastLoad.at <= Val(lastLoad.before.timestamp) + ALOCACAO_CACHE_TTL
        THEN /\ lastLoad.passes = 0
             /\ lastLoad.requested = <<>>
             /\ lastLoad.ret.timestamp = lastLoad.before.timestamp
        ELSE /\ lastLoad.passes = 1
             /\ Len(lastLoad.requested) >= 1
             /\ lastLoad.requested
                   = SubSeq(CandidatesOf[ALOCACAO_DOC_URL], 1, Len(lastLoad.requested))

\* the selection handle_chat_message of worker w finds for session s, once it
\* has a connection: None when there is none
PendingFound(w, s) == PendingOf([World EXCEPT !.st = Ensured(@, w)], w, s)

C13_RouteAnswersAsHandler ==
    [][(reachable' = reachable /\ last'.kind = "route")
       => \E tools \in ToolLists :
             last'.result
                = handle_chat_message(World, last'.w, last'.s, last'.message, tools,
                                      last'.in).result]_vars

\* C14: build_status_report never raises, and its report has, after the
\* title, one line per site in order: "- <site>: ONLINE" when the request
\* answered 200, "- <site>: OFFLINE" for any other status and for any exception
C14_StatusReportPerSite ==
    ~IsNone(output) =>
        /\ ~Val(output).raised
        /\ LET lines == SplitAt(Val(output).value, "\n")
           IN  /\ Len(lines) = Len(input.names) + 1
               /\ \A i \in 1..Len(input.names) :
                     LET status == IF input.gets[i].kind = "status" /\ input.gets[i].code = 200
                                   THEN "ONLINE" ELSE "OFFLINE"
                         expected == "- " \o input.names[i] \o ": " \o status
                     IN  /\ Len(lines[i + 1]) >= Len(expected)
                         /\ SubSeq(lines[i + 1], 1, Len(expected)) = expected

\* C15: parse_tool_call_from_text returns (None, None) for a text that holds
\* a code fence, "exemplo" or "ex:" (in any case); for a text without them
\* whose call starts a line, written print(prefix.tool(k=v, ...)) or
\* prefix.tool(k=v, ...), it returns the name of the tool itself (the last
\* dotted component, not "print") and the mapping of the arguments, typed as
\* string, boolean, int or float
C15_ParsedToolCall ==
    ~IsNone(output) =>
        IF \/ IsSubstr("exemplo", Casefold(input.text)) \/ IsSubstr("ex:", Casefold(input.text))
           \/ IsSubstr(CodeFence, input.text)
        THEN Val(output).value = NoneV
        ELSE input.tool # "" =>
                Val(output).value
                    = Some([func_name |-> input.tool, kwargs |-> MeantKwargs(input.args)])

\* the names a tool is registered under, casefolded: its name, its qualified
\* name, the names of the function it wraps, and each of them after the module
RegisteredNames(t) ==
    LET own == ({t.__name__, t.__qualname__}
                   \cup (IF IsNone(t.wrapped) THEN {}
                         ELSE {Val(t.wrapped).__name__, Val(t.wrapped).__qualname__})) \ {""}
    IN  {Casefold(n) : n \in own}
            \cup {Casefold(t.__module__ \o "." \o n) : n \in own \cup {t.__name__}}

\* C16: find_tool_by_name returns a tool of the list exactly when, without
\* regard to case, the requested name is a registered name, or its last
\* dotted component is one, or it is contained in one; it returns None
\* otherwise, and for an empty name or an empty list
C16_FoundExactlyWhenNamed ==
    ~IsNone(output) =>
        LET tools == input.tools
            names == UNION {RegisteredNames(tools[i]) : i \in 1..Len(tools)}
            key == Casefold(input.func_name)
            found == Val(output).value
        IN  /\ ~IsNone(found) <=>
                  /\ Len(tools) > 0 /\ input.func_name # ""
                  /\ \/ key \in names
                     \/ Casefold(LastDotted(input.func_name)) \in names
                     \/ \E n \in names : IsSubstr(key, n)
            /\ ~IsNone(found) => Val(found) \in 1..Len(tools)

\* a tool has been found only because the requested name is contained in one of its names
C16_Witness ==
    /\ ~IsNone(output) /\ ~IsNone(Val(output).value)
    /\ input.func_name = "feriados"
    /\ input.tools = my_tools_registered
    /\ input.tools[Val(Val(output).value)].__name__ = "buscar_feriados"

\* the mapping the claim gives for the arguments of a call: the mapping a
\* string was written from, empty when the string is not the JSON of one
MeantArgs(args_raw) ==
    IF args_raw.type = "str"
    THEN (IF IsNone(args_raw.meant) THEN EmptyDict ELSE Val(args_raw.meant))
    ELSE args_raw.dict

\* the first source present: the direct function call, else for each
\* candidate in order its function_call, its tool, its dict content
RECURSIVE MeantFromCandidates(_, _)
MeantFromCandidates(candidates, i) ==
    IF i > Len(candidates) THEN NoneV
    ELSE LET cand == candidates[i]
         IN  IF ~IsNone(cand.function_call)
             THEN Some([name |-> Val(cand.function_call).name,
                        args |-> MeantArgs(Val(cand.function_call).arguments)])
             ELSE IF ~IsNone(cand.tool)
             THEN Some([name |-> Val(cand.tool).name,
                        args |-> MeantArgs(Val(cand.tool).arguments)])
             ELSE IF /\ cand.content.is_dict
                     /\ (cand.content.name \notin {NoneV, Some("")}
                            \/ Truthy(cand.content.arguments))
             THEN Some([name |-> cand.content.name,
                        args |-> MeantArgs(cand.content.arguments)])
             ELSE MeantFromCandidates(candidates, i + 1)

MeantCall(response) ==
    IF ~IsNone(response.function_call)
    THEN Some([name |-> Val(response.function_call).name,
               args |-> MeantArgs(Val(response.function_call).arguments)])
    ELSE IF IsNone(response.candidates) THEN NoneV
    ELSE MeantFromCandidates(Val(response.candidates), 1)

\* C17: extract_function_call_from_response does not raise; it answers for
\* the first source present (the direct function call, then each candidate's
\* function_call or tool, then its dict content) with the name as it is and
\* with arguments that are a mapping: the one given, the one a JSON string
\* stands for, or the empty one when the string does not parse; with no
\* source it answers (None, None)
C17_ExtractedCallIsMapping ==
    ~IsNone(output) =>
        /\ ~Val(output).raised
        /\ IsNone(Val(output).value) <=> IsNone(MeantCall(input))
        /\ ~IsNone(Val(output).value) =>
              /\ Val(Val(output).value).name = Val(MeantCall(input)).name
              /\ Val(Val(output).value).args.type = "dict"
              /\ Val(Val(output).value).args.val = Val(MeantCall(input)).args

\* the positions in the cached rows of the first MaxMatches rows that pass the
\* schedule filter and match the name
FirstHits(in) ==
    LET hits == {i \in 1..Len(in.cache.rows) :
                    /\ SchedulePasses[in.horario][in.weekday][in.cache.rows[i]]
                    /\ RowMatches[in.nome][in.cache.rows[i]].match_type # ""}
    IN  {i \in hits : Cardinality({j \in hits : j < i}) < MaxMatches}

\* how many times a result holds a row (with no rows cached the result is an
\* empty list in every mode)
HeldTimes(in, value, row) ==
    IF in.mode = "rows" THEN Cardinality({n \in 1..Len(value) : value[n] = row})
    ELSE IF in.mode = "week" /\ in.cache.rows = <<>> THEN 0
    ELSE IF in.mode = "week"
    THEN Cardinality({dn \in UNION {{<<d, n>> : n \in 1..Len(value.week[d])} :
                                        d \in DOMAIN value.week} :
                         value.week[dn[1]][dn[2]] = row})
    ELSE Cardinality({n \in 1..Len(value) : value[n] = _format_row_string(row)})

ScoreOfLine(in, line) ==
    RowMatches[in.nome][CHOOSE row \in RowSet : _format_row_string(row) = line].score

\* C18: for every name, schedule text and cached row list (the document was
\* read without error), buscar_professor_em_alocacao returns at most 6
\* matches, they are the first 6 rows in document order that pass the schedule
\* filter and match, in that order when the rows themselves are asked for, and
\* in the default mode the lines come by non-increasing score of their rows
C18_FirstSixByScore ==
    (~IsNone(output) /\ input \in SearchInputs /\ IsNone(input.cache.error)) =>
        LET value == Val(output).value
            first == FirstHits(input)
        IN  /\ Cardinality(first) <= MaxMatches
            /\ \A row \in RowSet :
                   HeldTimes(input, value, row)
                       = Cardinality({i \in first : input.cache.rows[i] = row})
            /\ input.mode = "rows" =>
                   /\ Len(value) = Cardinality(first)
                   /\ \A n \in 1..Len(value) :
                          \E i \in first :
                              /\ value[n] = input.cache.rows[i]
                              /\ Cardinality({j \in first : j < i}) = n - 1
            /\ input.mode = "lines" =>
                   /\ Len(value) = Cardinality(first)
                   /\ \A n \in 1..(Len(value) - 1) :
                          ScoreOfLine(input, value[n]) >= ScoreOfLine(input, value[n + 1])

\* C19: _normalize_token is idempotent, normalize(normalize(s)) equals
\* normalize(s) for every text s, and two texts that differ only in case or
\* accents normalize to the same text
C19_NormalizeIdempotentCaseless ==
    (~IsNone(output) /\ input \in NormalizeInputs) =>
        /\ Val(output).value.again = Val(output).value.s
        /\ SameButCaseOrAccents(input.s, input.t)
               => Val(output).value.s = Val(output).value.t

\* a thread is between the two assignments of listar_docentes
MidAssignment == \E t \in Threads : threads[t].pc = "list_assign_timestamp"

\* the dicts that one refresh of the allocation cache builds
SingleRefreshes ==
    {BuildCache(ALOCACAO_DOC_URL, gets, clock).cache : gets \in RefreshGets, clock \in 0..MaxNow}

\* C20: under any interleaving of concurrent refreshes, the allocation cache
\* is the whole dict that one refresh built (or the one the module starts
\* with), and the index and the timestamp of the directory, once no refresh is
\* between assigning the one and the other, come from the same refresh
C20_WholeSnapshots ==
    /\ ALOCACAO_CACHE \in {EmptyCache} \cup SingleRefreshes
    /\ ~MidAssignment => origin.index = origin.timestamp

\* C21: for one session id the stored log only grows: every value an
\* append_message writes to the shared log of a session extends the value
\* stored before by exactly one record, whatever the interleaving of the
\* workers' calls, so no record a completed append stored is dropped or rewritten
C21_LogOnlyGrows ==
    [][\A s \in Sessions :
          (s \in DOMAIN redisHist /\ redisHist'[s] # redisHist[s])
          => /\ s \in DOMAIN redisHist'
             /\ Len(redisHist'[s]) = Len(redisHist[s]) + 1
             /\ SubSeq(redisHist'[s], 1, Len(redisHist[s])) = redisHist[s]]_vars

\* the error the claim attributes to a candidate that is not accepted
CandidateError(resp, candidate) ==
    IF resp.kind = "raise" THEN resp.err
    ELSE IF resp.kind = "auth" THEN AuthError
    ELSE NoTableError(candidate)

\* the candidates that respond without error, are not redirected to the
\* authentication page and contain at least one table
GoodCandidates(gets) == {i \in DOMAIN gets : gets[i].kind = "doc" /\ gets[i].tables >= 1}

\* C22: carregar_alocacoes requests the candidate URLs in their list order and
\* stops at the first one that responds without error, is not redirected to the
\* authentication page and contains a table, whose rows it stores; candidates
\* that fail are skipped; when every candidate fails the cache has no rows and
\* the error of the last candidate
C22_FirstGoodCandidate ==
    (~IsNone(output) /\ input.doc_link # "") =>
        LET candidates == CandidatesOf[input.doc_link]
            r == Val(output).value
            good == GoodCandidates(input.gets)
        IN  IF good = {}
            THEN /\ r.requested = candidates
                 /\ r.cache.rows = <<>>
                 /\ r.cache.error = Some(CandidateError(input.gets[Len(candidates)],
                                                        candidates[Len(candidates)]))
                 /\ ALOCACAO_CACHE = r.cache
            ELSE /\ r.requested = SubSeq(candidates, 1, MinOf(good))
                 /\ r.cache.doc_url = Some(candidates[MinOf(good)])
                 /\ r.cache.error = NoneV
                 /\ r.cache.rows \in {input.gets[MinOf(good)].table_rows,
                                      input.gets[MinOf(good)].plain_rows}
                 /\ ALOCACAO_CACHE = r.cache

\* two candidates failed in different ways and the third was accepted
C22_Witness ==
    /\ ~IsNone(output) /\ input.doc_link = ALOCACAO_DOC_URL
    /\ input.gets[1].kind = "raise" /\ input.gets[2].kind = "doc" /\ input.gets[2].tables = 0
    /\ Accepted(input.gets[3])
    /\ Len(Val(output).value.requested) = 3
    /\ Len(ALOCACAO_CACHE.rows) > 0

\* rows and error of the cache exclude each other, and a call that finds rows
\* that are not expired requests nothing and returns the cache it found
RowsXorError ==
    /\ ~IsNone(ALOCACAO_CACHE.error) => ALOCACAO_CACHE.rows = <<>>
    /\ ALOCACAO_CACHE.rows # <<>> => IsNone(ALOCACAO_CACHE.error)
    /\ (/\ lastLoad.t # "" /\ lastLoad.before.rows # <<>>
        /\ ~IsNone(lastLoad.before.timestamp)
        /\ lastLoad.at - Val(lastLoad.before.timestamp) <= ALOCACAO_CACHE_TTL)
       => (lastLoad.requested = <<>> /\ lastLoad.ret = lastLoad.before)

\* C23: in every state of the allocation cache a set error implies no rows,
\* rows imply no error, rows are empty with no error only when the accepted
\* document yielded zero entries, and a non-expired cache with rows is returned
\* without any request
C23_RowsEmptyIffErrorOrNoEntries ==
    /\ RowsXorError
    /\ (ALOCACAO_CACHE.rows = <<>> /\ IsNone(ALOCACAO_CACHE.error)) => origin.entries = Some(0)

\* C23 for the states the first refresh and the later ones leave (the cache
\* has a timestamp): the dict the module is loaded with has no rows, no error
\* and no timestamp, and no document behind it
C23_RowsEmptyIffErrorOrNoEntries_Refreshed ==
    /\ RowsXorError
    /\ (/\ ~IsNone(ALOCACAO_CACHE.timestamp)
        /\ ALOCACAO_CACHE.rows = <<>> /\ IsNone(ALOCACAO_CACHE.error))
       => origin.entries = Some(0)

\* a refresh accepted a document in which no row was found, and a later call
\* found rows that had not expired
C23_Witness ==
    /\ lastLoad.t # "" /\ lastLoad.before.rows # <<>> /\ lastLoad.requested = <<>>
    /\ lastLoad.at - Val(lastLoad.before.timestamp) = ALOCACAO_CACHE_TTL

\* the cache of a refresh whose accepted document had no row
C23_WitnessNoEntries ==
    /\ ~IsNone(ALOCACAO_CACHE.timestamp)
    /\ ALOCACAO_CACHE.rows = <<>> /\ IsNone(ALOCACAO_CACHE.error)

\* the five match types in the order of the claim, and whether each holds for
\* the name and the row being scored
MatchTypeOrder == <<"substring", "tokens_all", "tokens_fuzzy", "last_name", "fuzzy">>

MatchTypeHolds(nome, row) ==
    LET nome_norm == _normalize_token(nome)
        texto == _normalize_token(row._row_text)
        tokens == NameTokens(nome_norm)
        words == {SplitWords(texto)[i] : i \in 1..Len(SplitWords(texto))}
        Close(token) == \E word \in words : RatioAtLeast(word, token, 70, 100)
    IN  << IsSubstr(nome_norm, texto),
           Len(tokens) > 0 /\ \A i \in 1..Len(tokens) : IsSubstr(tokens[i], texto),
           Len(tokens) > 0 /\ \A i \in 1..Len(tokens) : tokens[i] \in words \/ Close(tokens[i]),
           Len(tokens) = 1 /\ IsSubstr(tokens[1], texto),
           RatioAbove(nome_norm, texto, 65, 100) >>

\* the score of each match type: 75 + ratio * 25 truncated, for the last one
MatchTypeScore(nome, row) ==
    LET nome_norm == _normalize_token(nome)
        texto == _normalize_token(row._row_text)
    IN  << 80, 100, 90, 50,
           75 + (2 * MatchingCount(nome_norm, texto) * 25) \div (Len(nome_norm) + Len(texto)) >>

\* C24: a row gets the score of the first match type that holds, in the order
\* substring (80), tokens_all (100), tokens_fuzzy (90), last_name (50), ratio
\* of the whole strings above 0.65 (75 + ratio * 25 truncated), and is not
\* matched when none holds; a row whose text contains the whole normalized
\* name scores 80 even when it contains every token as well
C24_FirstMatchTypeInOrder ==
    (~IsNone(output) /\ input \in ScoreInputs) =>
        LET holds == MatchTypeHolds(input.nome, input.row)
            first == {i \in 1..Len(MatchTypeOrder) : holds[i]}
            got == Val(output).value
        IN  IF first = {} THEN got.match_type = "" /\ got.score = 0
            ELSE /\ got.match_type = MatchTypeOrder[MinOf(first)]
                 /\ got.score = MatchTypeScore(input.nome, input.row)[MinOf(first)]

\* a row that contains the whole name, and so each token of it, was scored 80
C24_Witness ==
    /\ ~IsNone(output) /\ input \in ScoreInputs
    /\ MatchTypeHolds(input.nome, input.row)[1] /\ MatchTypeHolds(input.nome, input.row)[2]
    /\ Val(output).value.score = 80

\* the keys a heading registers: its whole normalized name, each pair of
\* adjacent tokens of two characters or more, and its last token when the name
\* has several tokens and the last is no particle
KeysOfName(name) ==
    LET tokens == SplitWords(_normalize_token(name))
        n == Len(tokens)
    IN  {_normalize_token(name)}
            \cup {tokens[i] \o " " \o tokens[i + 1] :
                     i \in {j \in 1..(n - 1) : Len(tokens[j]) >= 2 /\ Len(tokens[j + 1]) >= 2}}
            \cup (IF n > 1 /\ Len(tokens[n]) >= 2 /\ tokens[n] \notin {"de", "do", "da", "dos", "das"}
                  THEN {tokens[n]} ELSE {})

\* the call recorded in input rebuilt the index
Rebuilt == ~IsNone(input) /\ Val(input).fetched /\ Val(input).page.kind = "page"

\* C25: in one rebuild a key keeps the entry of the first heading that
\* registered it; after a successful rebuild the index holds the keys of the
\* headings of that scrape and no other (none of the previous index), and the
\* timestamp is the time of the rebuild
C25_FirstRegistrationWins ==
    Rebuilt =>
        LET headings == Val(input).page.headings
            registers(k) == {i \in 1..Len(headings) : k \in KeysOfName(headings[i][1])}
        IN  /\ DOMAIN DOCENTES_INDEX_CACHE
                  = UNION {KeysOfName(headings[i][1]) : i \in 1..Len(headings)}
            /\ \A k \in DOMAIN DOCENTES_INDEX_CACHE :
                   DOCENTES_INDEX_CACHE[k]
                       = DirectoryEntry(headings[MinOf(registers(k))][1],
                                        headings[MinOf(registers(k))][2])
            /\ DOCENTES_INDEX_TIMESTAMP = Some(Val(input).at)
            /\ Val(output).value = DOCENTES_INDEX_CACHE

\* a rebuild over an index that had other keys, in which two headings
\* registered the same key and one entry is under several keys
C25_Witness ==
    /\ Rebuilt
    /\ DOMAIN Val(input).index \ DOMAIN DOCENTES_INDEX_CACHE # {}
    /\ \E k \in DOMAIN DOCENTES_INDEX_CACHE :
          Cardinality({i \in 1..Len(Val(input).page.headings) :
                          k \in KeysOfName(Val(input).page.headings[i][1])}) > 1
    /\ \E k1, k2 \in DOMAIN DOCENTES_INDEX_CACHE :
          k1 # k2 /\ DOCENTES_INDEX_CACHE[k1] = DOCENTES_INDEX_CACHE[k2]

\* the last call had no handle for the session, made one, forwarded the
\* message without calling a tool and got a response that was not empty
RehydratedAndAnswered ==
    /\ NoToolPath /\ ~last.cached
    /\ last.path = "final"
    /\ last.in.o1.ok /\ _render_response_text(last.in.o1.resp) # ""

\* C26: when handle_chat_message rebuilds the handle of the session and then
\* forwards the incoming message without a tool, with a response that is not
\* empty, the engine is sent the incoming message exactly once: the replay,
\* which comes before the message is appended to the log, sends the user
\* messages stored before the call and no other, and the message is sent once
\* after it was appended
C26_IncomingSentOnce ==
    RehydratedAndAnswered =>
        LET at == MinOf(UserAppendPos(last.ops))
            replayed == SelectSeq(SubSeq(last.ops, 1, at - 1), IsSend)
            users == UserMessages(LogBefore(last))
        IN  /\ last.ops[1].op = "create"
            /\ Len(replayed) = Len(users)
            /\ \A i \in 1..Len(users) : replayed[i].text = users[i].content
            /\ last.ops[at].text = last.message
            /\ Len(SelectSeq(last.ops, IsSend)) = Len(users) + 1
            /\ last.ops[Len(last.ops) - 1] = Op("send", "", last.message, TRUE)
            /\ sent[last.w][last.s]
                   = [i \in 1..(Len(users) + 1) |->
                         IF i <= Len(users) THEN users[i].content ELSE last.message]

\* the rebuilt handle replayed an earlier message with the same text as the
\* incoming one, which it was then sent once more
C26_Witness ==
    /\ RehydratedAndAnswered
    /\ \E i \in 1..Len(UserMessages(LogBefore(last))) :
          UserMessages(LogBefore(last))[i].content = last.message
    /\ Len(sent[last.w][last.s]) = Len(UserMessages(LogBefore(last))) + 1

\* name is the name of a tool of the list
Registered(tools, name) == \E i \in 1..Len(tools) : tools[i].__name__ = name

\* the last call got as far as forwarding the message
Forwarded == last.kind = "chat" /\ UserAppendPos(last.ops) # {}

\* the detection step that resolves to a registered tool, by the message and
\* by the first response: "" when none does
ResolvingStep ==
    IF StatusQuery[last.message] /\ Registered(my_tools, StatusToolName) THEN "tool_heuristic"
    ELSE IF ~last.in.o1.ok THEN ""
    ELSE IF Registered(my_tools, LastDotted(last.in.o1.resp.fc)) THEN "tool_structured"
    ELSE IF Registered(my_tools,
                       LastDotted(ParsedName[_render_response_text(last.in.o1.resp)]))
    THEN "tool_textual"
    ELSE ""

\* C27: a call of handle_chat_message runs at most one tool: the first
\* detection step (status heuristic, structured call, textual call) that
\* resolves to a registered tool runs it and its reply ends the call, so no
\* later step runs a tool and the message is not sent (again) after it
C27_AtMostOneTool ==
    Forwarded =>
        /\ Cardinality(ToolPos(last.ops)) <= 1
        /\ (ToolPos(last.ops) # {}) <=> (ResolvingStep # "")
        /\ ResolvingStep # "" =>
              /\ last.path = ResolvingStep
              /\ last.result.status = 200
              /\ Len(MessageSends(last)) = (IF ResolvingStep = "tool_heuristic" THEN 0 ELSE 1)
              /\ \A i \in ToolPos(last.ops) :
                    \A j \in (i + 1)..Len(last.ops) :
                        ~(IsSend(last.ops[j]) /\ last.ops[j].text = last.message)

\* the first response was empty and asked for a registered tool: the tool was
\* run and the message was not sent a second time
C27_Witness ==
    /\ Forwarded /\ ResolvingStep = "tool_structured"
    /\ _render_response_text(last.in.o1.resp) = ""
    /\ Cardinality(ToolPos(last.ops)) = 1
    /\ Len(MessageSends(last)) = 1

\* the last call resolved a pending selection
Resolved == last.kind = "chat" /\ last.path = "resolved"

\* C28: a call of handle_chat_message that resolves a pending selection leaves
\* the message log of the session as it found it and appends nothing, does not
\* send the incoming message to the engine (the only sends are the replay of
\* the stored user messages into a handle the call had to rebuild), and stores
\* one change: the persisted state is the state it found with
\* pending_selection None and every other key kept
C28_ResolvedKeepsLogAndKeys ==
    [][(reachable' = reachable /\ Resolved')
       => LET w == last'.w
              s == last'.s
              found == get_state(Ensured(Store, w), w, s)
              users == UserMessages(LogBefore(last'))
              sends == SelectSeq(last'.ops, IsSend)
          IN  /\ get_messages(Store', w, s) = last'.before
              /\ last'.before = get_messages(Ensured(Store, w), w, s)
              /\ \A i \in 1..Len(last'.ops) : last'.ops[i].op \notin {"append", "tool"}
              /\ MessageSends(last') = <<>>
              /\ IF last'.cached
                 THEN sends = <<>> /\ sent'[w][s] = sent[w][s]
                 ELSE /\ Len(sends) = Len(users)
                      /\ \A i \in 1..Len(users) : sends[i].text = users[i].content
              /\ last'.ops[Len(last'.ops)] = Op("set_state", "", s, TRUE)
              /\ Cardinality({i \in 1..Len(last'.ops) : last'.ops[i].op = "set_state"}) = 1
              /\ get_state(Store', w, s)
                    = Some([k \in (IF IsNone(found) THEN {} ELSE DOMAIN Val(found))
                                      \cup {"pending_selection"} |->
                               IF k = "pending_selection" THEN NoneV ELSE Val(found)[k]])
              /\ \A x \in Sessions \ {s} :
                    /\ get_state(Store', w, x) = get_state(Ensured(Store, w), w, x)
                    /\ get_messages(Store', w, x) = get_messages(Ensured(Store, w), w, x)]_vars

\* a selection was resolved for a session whose stored state held a second
\* key, which the state still holds, by a worker that had to rebuild the
\* handle from a log with a user message
C28_Witness ==
    /\ Resolved /\ ~last.cached
    /\ UserMessages(LogBefore(last)) # <<>>
    /\ get_state(Store, last.w, last.s)
          = Some([pending_selection |-> NoneV, topic |-> "docentes"])

\* the same for a worker that held the handle
C28_WitnessCached ==
    /\ Resolved /\ last.cached
    /\ get_state(Store, last.w, last.s)
          = Some([pending_selection |-> NoneV, topic |-> "docentes"])

\* the last call of listar_docentes called fetch_html, which raised
FailedScrape ==
    ~IsNone(input) /\ Val(input).fetched /\ Val(input).page.kind = "raise"

\* C29: a call of listar_docentes whose fetch_html raises returns the index
\* that was cached and leaves the index and its timestamp as they were; the
\* call that follows a failed one, at that time or later, calls fetch_html
\* again
C29_FailedScrapeKeepsCache ==
    [][(now' = now /\ ~IsNone(input'))
       => /\ FailedScrape'
               => /\ Val(input').index = DOCENTES_INDEX_CACHE
                  /\ Val(input').timestamp = DOCENTES_INDEX_TIMESTAMP
                  /\ output' = Some(Returns(DOCENTES_INDEX_CACHE))
                  /\ DOCENTES_INDEX_CACHE' = DOCENTES_INDEX_CACHE
                  /\ DOCENTES_INDEX_TIMESTAMP' = DOCENTES_INDEX_TIMESTAMP
          /\ FailedScrape => Val(input').fetched]_vars

\* the scrape failed over an index that had entries and had expired, and the
\* call returned that index
C29_Witness ==
    /\ FailedScrape
    /\ DOMAIN DOCENTES_INDEX_CACHE # {}
    /\ ~IsNone(DOCENTES_INDEX_TIMESTAMP)
    /\ Val(input).timestamp = DOCENTES_INDEX_TIMESTAMP
    /\ Val(input).at > Val(DOCENTES_INDEX_TIMESTAMP) + DOCENTES_CACHE_TTL
    /\ output = Some(Returns(DOCENTES_INDEX_CACHE))

\* the name has exactly one token and the text of the row contains it
OneTokenContained(nome, row) ==
    LET tokens == NameTokens(_normalize_token(nome))
    IN  Len(tokens) = 1 /\ IsSubstr(tokens[1], _normalize_token(row._row_text))

\* C30: no row is given the match type last_name or the score 50: when the
\* name has exactly one token and the row text contains it, the row is matched
\* as substring (80) or as tokens_all (100), which are tested first; the score
\* of a matched row is 80, 90 or 100, or 75 + ratio * 25 truncated for a ratio
\* of the whole strings above 0.65, which is above 75
C30_LastNameNeverAssigned ==
    (~IsNone(output) /\ input \in ScoreInputs) =>
        LET got == Val(output).value
        IN  /\ got.match_type # "last_name"
            /\ got.score # 50
            /\ OneTokenContained(input.nome, input.row)
                  => got \in {Match("substring", 80), Match("tokens_all", 100)}
            /\ got.match_type \in {"", "substring", "tokens_all", "tokens_fuzzy", "fuzzy"}
            /\ got.match_type = "" => got.score = 0
            /\ got.match_type = "substring" => got.score = 80
            /\ got.match_type = "tokens_all" => got.score = 100
            /\ got.match_type = "tokens_fuzzy" => got.score = 90
            /\ got.match_type = "fuzzy"
                  => /\ got.score > 75 /\ got.score <= 100
                     /\ got.score = MatchTypeScore(input.nome, input.row)[5]

\* a name of one token that the row contains, in a row that does not contain
\* the whole name: the row is matched as tokens_all
C30_Witness ==
    /\ ~IsNone(output) /\ input \in ScoreInputs
    /\ OneTokenContained(input.nome, input.row)
    /\ ~IsSubstr(_normalize_token(input.nome), _normalize_token(input.row._row_text))
    /\ Val(output).value = Match("tokens_all", 100)

\* a row matched by the ratio of the whole strings
C30_WitnessRatio ==
    /\ ~IsNone(output) /\ input \in ScoreInputs
    /\ Val(output).value.match_type = "fuzzy"
    /\ Val(output).value.score > 75


====
